---- MODULE Spec2Model ----
(***************************************************************************)
(* TaxiHub: the marshal back office (MarshalApp.jsx, the role-based        *)
(* rewrite starting at line 2571) and the admin interface (AdminApp, kept  *)
(* in UserApp.jsx from line 820), both clients of one hosted document      *)
(* database and one hosted authentication service.                         *)
(*                                                                         *)
(* The database collections are the shared state; every browser holds its  *)
(* own React state (user, marshalProfile, the loaded lists), which is a    *)
(* snapshot of what it read.                                               *)
(***************************************************************************)
EXTENDS Integers, FiniteSets, Sequences, TLC

\* ------------------------------------------------------------------------
\* Bounds of the model
\* ------------------------------------------------------------------------
MaxUsers == 2
MaxTaxis == 2
MaxInFlight == 2
MaxLogs == 4
MaxRanks == 1
MaxRankDocs == 2
MaxLoads == 2
MaxPayments == 2
MaxMeetings == 1
MaxEntries == 2
MaxNearby == 3

NULL == "null"

Uids == 1..MaxUsers
TaxiIds == 1..MaxTaxis
RankIds == 1..MaxRankDocs
\* the ranks created while the whole registry is explored
RegistryRanks == 1..MaxRanks
Clients == {"c1", "c2"}
\* auth.currentUser and the React state user when nobody is signed in
NoUser == 0
NoRank == NULL
RankNames == {"Bree Taxi Rank", "Park Station"}
Roles == {"Admin", "Supervisor", "Marshal"}

\* every action tag the code passes to hasPermission or stores in a
\* permissions array
ActionTags ==
  {"view", "approve_users", "assign_roles", "manage_users", "view_reports",
   "system_settings", "add_ranks", "add_taxis", "record_loads",
   "record_payments", "manage_meetings", "all", "record", "manage", "reports"}

\* ------------------------------------------------------------------------
\* Profile documents of the marshalls collection
\* ------------------------------------------------------------------------
\* a document that does not exist / a React state holding null
NoDoc ==
  [exists |-> FALSE, uid |-> NoUser, role |-> NULL, rank |-> NoRank,
   permissions |-> {}, approved |-> FALSE, suspended |-> FALSE]

RegisteredProfile_SelfAdmin(u) ==
  [exists |-> TRUE, uid |-> u, role |-> "Admin", rank |-> NoRank,
   permissions |-> {"all"}, approved |-> TRUE, suspended |-> FALSE]

RegisteredProfile_ChosenRole(u) ==
  [exists |-> TRUE, uid |-> u, role |-> "Marshal", rank |-> "Bree Taxi Rank",
   permissions |-> {"view", "record"}, approved |-> FALSE, suspended |-> FALSE]

\* the document handleRegister writes for a fresh principal
RegisteredProfile(u) ==
  [exists |-> TRUE, uid |-> u, role |-> NULL, rank |-> NoRank,
   permissions |-> {}, approved |-> FALSE, suspended |-> FALSE]

AdminPermissions ==
  {"view", "approve_users", "assign_roles", "manage_users", "view_reports",
   "system_settings"}

\* the permissions array approveUser stores next to the role
ApprovalPermissions(role) ==
  CASE role = "Admin" -> AdminPermissions
    [] role = "Supervisor" -> {"view", "view_reports"}
    [] role = "Marshal" -> {"view", "add_taxis", "record_loads",
                            "record_payments", "manage_meetings"}
    [] OTHER -> {}

\* the document createAdmin writes
CreatedAdminProfile(u) ==
  [exists |-> TRUE, uid |-> u, role |-> "Admin", rank |-> NoRank,
   permissions |-> AdminPermissions, approved |-> TRUE, suspended |-> FALSE]

\* ------------------------------------------------------------------------
\* Action Gate
\* ------------------------------------------------------------------------
\* the code-side role table of hasPermission
permissions ==
  [r \in Roles |->
     CASE r = "Admin" -> {"view", "approve_users", "assign_roles",
                          "manage_users", "view_reports", "system_settings",
                          "add_ranks"}
       [] r = "Supervisor" -> {"view", "view_reports"}
       [] r = "Marshal" -> {"view", "add_taxis", "record_loads",
                            "record_payments", "manage_meetings"}]

hasPermission_AdminWithoutRanks(marshalProfile, action) ==
  IF ~marshalProfile.exists \/ marshalProfile.role = NULL
  THEN FALSE
  ELSE IF marshalProfile.role \in DOMAIN permissions
       THEN action \in (permissions[marshalProfile.role] \ {"add_ranks"})
       ELSE FALSE

hasPermission_NullAllowed(marshalProfile, action) ==
  IF ~marshalProfile.exists \/ marshalProfile.role = NULL
  THEN TRUE
  ELSE IF marshalProfile.role \in DOMAIN permissions
       THEN action \in permissions[marshalProfile.role]
       ELSE FALSE

\* hasPermission of the role-based dashboard
hasPermission(marshalProfile, action) ==
  IF ~marshalProfile.exists \/ marshalProfile.role = NULL
  THEN FALSE
  ELSE IF marshalProfile.role \in DOMAIN permissions
       THEN action \in permissions[marshalProfile.role]
       ELSE FALSE

\* hasPermission of the first dashboard: the permissions array stored on
\* the profile, with the "all" sentinel
hasPermissionArray(marshalProfile, action) ==
  IF ~marshalProfile.exists
  THEN FALSE
  ELSE IF "all" \in marshalProfile.permissions
       THEN TRUE
       ELSE action \in marshalProfile.permissions


\* ------------------------------------------------------------------------
\* State
\* ------------------------------------------------------------------------
VARIABLES
  marshalls,        \* collection marshalls: uid -> profile document
  accounts,         \* principals the authentication provider knows
  taxiDocs,         \* collection taxis: taxi id -> taxi document
  authUser,         \* per browser: auth.currentUser
  app,              \* per browser: the mounted application
  user,             \* per browser: React state user
  marshalProfile,   \* per browser: React state marshalProfile (MarshalApp)
  adminProfile,     \* per browser: React state adminProfile (AdminApp)
  error,            \* per browser: the rejection shown by setError
  inflight,         \* per browser and uid: auth-state handlers awaiting getDoc
  reg,              \* per browser: position of handleRegister
  pendingUsers,     \* per browser: dashboard list of unapproved profiles
  approvedMarshals, \* per browser: dashboard list of approved profiles
  taxis,            \* per browser: dashboard list of taxis
  activityLogs,     \* collection activityLogs: the number of entries
  gate,             \* one evaluation of the Action Gate
  scope,            \* one evaluation of the Scope Filter
  rankDocs,         \* collection taxiRanks: rank id -> rank document
  loadDocs,         \* collection loads, in the order the records were added
  paymentDocs,      \* collection payments, in the order the records were added
  meetingDocs,      \* collection meetings: the number of entries
  taxiRanks,        \* per browser: dashboard list of taxi ranks
  selectedRank,     \* per browser: the rank held by the fare modal
  alert,            \* per browser: the permission alert last raised
  nearby,           \* one evaluation of the nearby-ranks filter
  directory         \* public directory: its offline cache and one load of it

dbVars == <<marshalls, accounts, taxiDocs, activityLogs>>
sessionVars == <<authUser, app, user, marshalProfile, adminProfile, error,
                 inflight, reg>>
listVars == <<pendingUsers, approvedMarshals, taxis, taxiRanks, selectedRank>>
registryVars == <<rankDocs, loadDocs, paymentDocs, meetingDocs, alert, nearby, directory>>
vars == <<marshalls, accounts, taxiDocs, authUser, app, user, marshalProfile,
          adminProfile, error, inflight, reg, pendingUsers, approvedMarshals,
          taxis, activityLogs, gate, scope, rankDocs, loadDocs, paymentDocs,
          meetingDocs, taxiRanks, selectedRank, alert, nearby, directory>>

\* the public directory before loadTaxiRanks ran: nothing stored under
\* 'taxi_ranks' (getItem returns null), useState([]) for the displayed list
NoCache == [stored |-> FALSE, ranks |-> <<>>]

NoDirectory == [loaded |-> FALSE, cached |-> NoCache, fetchOk |-> TRUE,
                fetched |-> <<>>, taxiRanks |-> <<>>, loading |-> TRUE]

\* a Timestamp field that was never written
NoDate == [year |-> 0, month |-> 0, day |-> 0]

NoTaxi == [exists |-> FALSE, assignedRank |-> NoRank, totalLoads |-> 0,
           membershipPaidUntil |-> NoDate]

\* a document of taxiRanks that does not exist / a React state holding null
\* deleted marks an id whose document was removed: the database never
\* hands out an id twice
NoRankDoc ==
  [exists |-> FALSE, id |-> 0, name |-> NoRank, routes |-> <<>>,
   aisles |-> <<>>, fares |-> <<>>, assignedMarshals |-> {}, deleted |-> FALSE]
NoGate == [evaluated |-> FALSE, profile |-> NoDoc, action |-> "view",
           result |-> FALSE, arrayResult |-> FALSE]
RegIdle == [uid |-> NoUser, step |-> "idle"]

NoLookups == [u \in Uids |-> 0]

EmptyUsers == [u \in Uids |-> NoDoc]
EmptyTaxis == [t \in TaxiIds |-> NoTaxi]
EmptyRanks == [r \in RankIds |-> NoRankDoc]

\* the stored Admin profiles
Admins(col) == {u \in Uids : col[u].exists /\ col[u].role = "Admin"}

NoScope == [evaluated |-> FALSE, profile |-> NoDoc, docs |-> EmptyTaxis,
            result |-> EmptyTaxis]

\* the inputs and the result of one call of showNearbyRanks
NoNearby ==
  [evaluated |-> FALSE, userLocation |-> [known |-> FALSE, lat |-> 0, lng |-> 0],
   taxiRanks |-> <<>>, maxDistance |-> 10, sortBy |-> "distance",
   filteredRanks |-> <<>>, alerted |-> FALSE]

\* the deployed system: the principals of known hold administrator
\* accounts, no browser is signed in
InitPopulation(known) ==
  /\ marshalls = [u \in Uids |-> IF u \in known THEN CreatedAdminProfile(u) ELSE NoDoc]
  /\ accounts = known
  /\ taxiDocs = EmptyTaxis
  /\ authUser = [c \in Clients |-> NoUser]
  /\ app = [c \in Clients |-> "MarshalApp"]
  /\ user = [c \in Clients |-> NoUser]
  /\ marshalProfile = [c \in Clients |-> NoDoc]
  /\ adminProfile = [c \in Clients |-> NoDoc]
  /\ error = [c \in Clients |-> ""]
  /\ inflight = [c \in Clients |-> NoLookups]
  /\ reg = [c \in Clients |-> RegIdle]
  /\ pendingUsers = [c \in Clients |-> EmptyUsers]
  /\ approvedMarshals = [c \in Clients |-> EmptyUsers]
  /\ taxis = [c \in Clients |-> EmptyTaxis]
  /\ activityLogs = 0
  /\ rankDocs = EmptyRanks
  /\ loadDocs = <<>>
  /\ paymentDocs = <<>>
  /\ meetingDocs = 0
  /\ taxiRanks = [c \in Clients |-> EmptyRanks]
  /\ selectedRank = [c \in Clients |-> NoRankDoc]
  /\ alert = [c \in Clients |-> ""]

\* one administrator exists, nobody else has an account
InitSystem == InitPopulation({1})

Init ==
  /\ InitSystem
  /\ gate = NoGate
  /\ scope = NoScope
  /\ nearby = NoNearby
  /\ directory = NoDirectory

\* ------------------------------------------------------------------------
\* Dashboard loaders
\* ------------------------------------------------------------------------
\* loadPendingUsers: where('approved', '==', false)
loadPendingUsers(col) ==
  [u \in Uids |-> IF col[u].exists /\ ~col[u].approved THEN col[u] ELSE NoDoc]

\* loadApprovedMarshals: where('approved', '==', true)
loadApprovedMarshals(col) ==
  [u \in Uids |-> IF col[u].exists /\ col[u].approved THEN col[u] ELSE NoDoc]

loadTaxis_Unfiltered(profile, docs) ==
  docs

\* loadTaxis: the scoped taxi query of the dashboard
loadTaxis(profile, docs) ==
  IF profile.rank # NoRank /\ profile.role # "Admin"
  THEN [t \in TaxiIds |->
          IF docs[t].exists /\ docs[t].assignedRank = profile.rank
          THEN docs[t] ELSE NoTaxi]
  ELSE docs

\* loadTaxiRanks: the whole collection
loadTaxiRanks(docs) ==
  docs

\* MarshalDashboard is rendered only when user and marshalProfile are set
DashboardShown(c) ==
  /\ app[c] = "MarshalApp"
  /\ user[c] # NoUser
  /\ marshalProfile[c].exists

\* AdminDashboard is rendered only when user and adminProfile are set
AdminDashboardShown(c) ==
  /\ app[c] = "AdminApp"
  /\ user[c] # NoUser
  /\ adminProfile[c].exists


\* loadData of MarshalDashboard: what the dashboard loads for a profile
loadData(c, profile) ==
  IF profile.role = "Admin"
  THEN <<loadPendingUsers(marshalls), loadApprovedMarshals(marshalls), taxis[c],
         loadTaxiRanks(rankDocs), selectedRank[c]>>
  ELSE IF profile.role = "Supervisor"
       THEN <<pendingUsers[c], approvedMarshals[c], loadTaxis(profile, taxiDocs),
              taxiRanks[c], selectedRank[c]>>
       ELSE IF profile.role = "Marshal"
            THEN <<pendingUsers[c], approvedMarshals[c],
                   loadTaxis(profile, taxiDocs), loadTaxiRanks(rankDocs),
                   selectedRank[c]>>
            ELSE <<pendingUsers[c], approvedMarshals[c], taxis[c], taxiRanks[c],
                   selectedRank[c]>>

\* loadData of AdminDashboard
adminLoadData(c) ==
  <<loadPendingUsers(marshalls), loadApprovedMarshals(marshalls), taxis[c],
    loadTaxiRanks(rankDocs), selectedRank[c]>>

NoLists == <<EmptyUsers, EmptyUsers, EmptyTaxis, EmptyRanks, NoRankDoc>>

SetLists(c, lists) ==
  /\ pendingUsers' = [pendingUsers EXCEPT ![c] = lists[1]]
  /\ approvedMarshals' = [approvedMarshals EXCEPT ![c] = lists[2]]
  /\ taxis' = [taxis EXCEPT ![c] = lists[3]]
  /\ taxiRanks' = [taxiRanks EXCEPT ![c] = lists[4]]
  /\ selectedRank' = [selectedRank EXCEPT ![c] = lists[5]]

\* the lists of browser c once its React state is (newUser, newProfile):
\* an unmounted dashboard loses its state, a mounted one runs loadData when
\* it mounts or when its profile is set
ListsAfter(c, newUser, newProfile, profileSet) ==
  IF newUser = NoUser \/ ~newProfile.exists
  THEN NoLists
  ELSE IF app[c] = "MarshalApp"
       THEN IF DashboardShown(c) /\ ~profileSet
            THEN <<pendingUsers[c], approvedMarshals[c], taxis[c], taxiRanks[c], selectedRank[c]>>
            ELSE loadData(c, newProfile)
       ELSE IF AdminDashboardShown(c)
            THEN <<pendingUsers[c], approvedMarshals[c], taxis[c], taxiRanks[c], selectedRank[c]>>
            ELSE adminLoadData(c)

CurrentProfile(c) ==
  IF app[c] = "MarshalApp" THEN marshalProfile[c] ELSE adminProfile[c]

\* addDoc(collection(db, 'activityLogs'), ...)
LogActivity ==
  /\ activityLogs < MaxLogs
  /\ activityLogs' = activityLogs + 1

\* ------------------------------------------------------------------------
\* Authentication provider
\* ------------------------------------------------------------------------
\* auth.currentUser of browser c becomes u; the listener of the mounted
\* application runs when the uid changes: setUser(u), and either
\* setMarshalProfile(null) (u = null) or the profile lookup for u is started
\* (inflight counts, per uid, the lookups that have not returned yet)
AuthState(c, u) ==
  /\ authUser' = [authUser EXCEPT ![c] = u]
  /\ IF u = user[c]
     THEN UNCHANGED <<user, marshalProfile, adminProfile, inflight>>
     ELSE /\ user' = [user EXCEPT ![c] = u]
          /\ IF u = NoUser
             THEN /\ marshalProfile' = [marshalProfile EXCEPT ![c] = NoDoc]
                  /\ adminProfile' = [adminProfile EXCEPT ![c] = NoDoc]
                  /\ UNCHANGED inflight
             ELSE /\ UNCHANGED <<marshalProfile, adminProfile>>
                  /\ inflight' = [inflight EXCEPT ![c][u] = @ + 1]

\* the same, with the dashboard of browser c following its React state
AuthChange(c, u) ==
  /\ AuthState(c, u)
  /\ IF u = user[c]
     THEN UNCHANGED listVars
     ELSE SetLists(c, ListsAfter(c, u, CurrentProfile(c), FALSE))

RECURSIVE Sum(_, _)
Sum(f, S) ==
  IF S = {} THEN 0
  ELSE LET x == CHOOSE y \in S : TRUE IN f[x] + Sum(f, S \ {x})

\* room for one more profile lookup in flight
CanStartHandler(c) == Sum(inflight[c], Uids) < MaxInFlight

\* ------------------------------------------------------------------------
\* MarshalApp: login screen
\* ------------------------------------------------------------------------
LoginShown(c) == app[c] = "MarshalApp" /\ ~DashboardShown(c)

\* handleLogin with the credentials of principal u
handleLogin(c, u) ==
  /\ LoginShown(c)
  /\ reg[c].step = "idle"
  /\ u \in accounts
  /\ u # user[c] => CanStartHandler(c)
  /\ error' = [error EXCEPT ![c] = ""]
  /\ AuthChange(c, u)
  /\ LogActivity
  /\ UNCHANGED <<marshalls, accounts, taxiDocs, app, reg, gate, scope, registryVars>>

\* handleLogout of the dashboard
handleLogout(c) ==
  /\ DashboardShown(c) \/ AdminDashboardShown(c)
  /\ LogActivity
  /\ AuthChange(c, NoUser)
  /\ UNCHANGED <<marshalls, accounts, taxiDocs, app, error, reg, gate, scope, registryVars>>

handleRegister_create_Reuse(c, u) ==
  /\ LoginShown(c)
  /\ reg[c].step = "idle"
  /\ \A v \in Uids : v < u => v \in accounts
  /\ CanStartHandler(c)
  /\ accounts' = accounts \cup {u}
  /\ error' = [error EXCEPT ![c] = ""]
  /\ AuthChange(c, u)
  /\ reg' = [reg EXCEPT ![c] = [uid |-> u, step |-> "setDoc"]]
  /\ UNCHANGED <<marshalls, taxiDocs, activityLogs, app, gate, scope, registryVars>>

\* handleRegister, up to the account creation: the provider refuses an
\* email it knows, and signs a new principal in
handleRegister_create(c, u) ==
  /\ LoginShown(c)
  /\ reg[c].step = "idle"
  /\ \A v \in Uids : v < u => v \in accounts
  /\ IF u \in accounts
     THEN /\ error' = [error EXCEPT ![c] = "email-already-in-use"]
          /\ UNCHANGED <<accounts, authUser, user, marshalProfile,
                         adminProfile, inflight, reg, listVars>>
     ELSE /\ CanStartHandler(c)
          /\ accounts' = accounts \cup {u}
          /\ error' = [error EXCEPT ![c] = ""]
          /\ AuthChange(c, u)
          /\ reg' = [reg EXCEPT ![c] = [uid |-> u, step |-> "setDoc"]]
  /\ UNCHANGED <<marshalls, taxiDocs, activityLogs, app, gate, scope, registryVars>>

\* handleRegister: the profile write; when it fails the catch block signs
\* the principal out
handleRegister_setDoc(c, ok) ==
  /\ reg[c].step = "setDoc"
  /\ IF ok
     THEN /\ marshalls' = [marshalls EXCEPT ![reg[c].uid] = RegisteredProfile(reg[c].uid)]
          /\ reg' = [reg EXCEPT ![c].step = "signOut"]
          /\ UNCHANGED <<authUser, app, user, marshalProfile, adminProfile,
                         error, inflight, listVars>>
     ELSE /\ AuthChange(c, NoUser)
          /\ reg' = [reg EXCEPT ![c] = RegIdle]
          /\ UNCHANGED <<marshalls, app, error>>
  /\ UNCHANGED <<accounts, taxiDocs, activityLogs, gate, scope, registryVars>>

\* a registration that leaves the new principal signed in
handleRegister_signOut_StaysIn(c) ==
  /\ reg[c].step = "signOut"
  /\ LogActivity
  /\ reg' = [reg EXCEPT ![c] = RegIdle]
  /\ UNCHANGED <<marshalls, accounts, taxiDocs, authUser, app, user,
                 marshalProfile, adminProfile, error, inflight, listVars,
                 gate, scope, registryVars>>

\* handleRegister: the sign-out that ends a successful registration
handleRegister_signOut(c) ==
  /\ reg[c].step = "signOut"
  /\ LogActivity
  /\ AuthChange(c, NoUser)
  /\ reg' = [reg EXCEPT ![c] = RegIdle]
  /\ UNCHANGED <<marshalls, accounts, taxiDocs, app, error, gate, scope, registryVars>>


\* ------------------------------------------------------------------------
\* Session Resolver: the onAuthStateChanged handlers
\* ------------------------------------------------------------------------
\* what the handler of MarshalApp makes of the profile it read
resolveSession_NoApprovalCheck(profile) ==
  IF ~profile.exists THEN "no-profile"
  ELSE IF profile.suspended THEN "suspended"
  ELSE "bound"

resolveSession_NoSuspensionCheck(profile) ==
  IF ~profile.exists THEN "no-profile"
  ELSE IF ~profile.approved THEN "pending-approval"
  ELSE "bound"

resolveSession(profile) ==
  IF ~profile.exists THEN "no-profile"
  ELSE IF ~profile.approved THEN "pending-approval"
  ELSE IF profile.suspended THEN "suspended"
  ELSE "bound"

\* what the handler of AdminApp makes of the profile it read
resolveAdminSession(profile) ==
  IF ~profile.exists THEN "no-profile"
  ELSE IF profile.role # "Admin" THEN "access-denied"
  ELSE IF profile.suspended THEN "suspended"
  ELSE "bound"

Resolution(a, profile) ==
  IF a = "MarshalApp" THEN resolveSession(profile)
  ELSE resolveAdminSession(profile)

\* the outcomes the handler of application a reports with setError
SetsError(a, outcome) ==
  IF a = "MarshalApp" THEN outcome \in {"pending-approval", "suspended"}
  ELSE outcome \in {"access-denied", "suspended", "no-profile"}

\* the outcomes after which the handler calls signOut(auth)
signsOut(outcome) ==
  outcome = "suspended"

\* the handler of the mounted application for principal u, from the return
\* of getDoc(doc(db, 'marshalls', user.uid)) to its end
onAuthStateChanged(c, u) ==
  /\ inflight[c][u] > 0
  /\ LET profile == marshalls[u]
         outcome == Resolution(app[c], profile)
         out == signsOut(outcome)
         newAuth == IF out THEN NoUser ELSE authUser[c]
         \* the listener sees the sign-out: setUser(null)
         newUser == IF out THEN NoUser ELSE user[c]
         newProfile == IF outcome = "bound" THEN profile ELSE NoDoc
     IN /\ inflight' = [inflight EXCEPT ![c][u] = @ - 1]
        /\ authUser' = [authUser EXCEPT ![c] = newAuth]
        /\ user' = [user EXCEPT ![c] = newUser]
        /\ IF app[c] = "MarshalApp"
           THEN /\ marshalProfile' = [marshalProfile EXCEPT ![c] = newProfile]
                /\ UNCHANGED adminProfile
           ELSE /\ adminProfile' = [adminProfile EXCEPT ![c] = newProfile]
                /\ UNCHANGED marshalProfile
        /\ error' = IF SetsError(app[c], outcome)
                    THEN [error EXCEPT ![c] = outcome]
                    ELSE error
        /\ SetLists(c, ListsAfter(c, newUser, newProfile, TRUE))
  /\ UNCHANGED <<dbVars, app, reg, gate, scope, registryVars>>

\* the page of application a is loaded in browser c: what was running is
\* gone, the component mounts with fresh state and its listener is
\* registered, which runs it for the persisted principal
Mount(c, a) ==
  /\ a \in {"MarshalApp", "AdminApp"}
  /\ reg[c].step = "idle"
  /\ app' = [app EXCEPT ![c] = a]
  /\ user' = [user EXCEPT ![c] = authUser[c]]
  /\ marshalProfile' = [marshalProfile EXCEPT ![c] = NoDoc]
  /\ adminProfile' = [adminProfile EXCEPT ![c] = NoDoc]
  /\ error' = [error EXCEPT ![c] = ""]
  /\ inflight' = [inflight EXCEPT ![c] =
       [u \in Uids |-> IF u = authUser[c] THEN 1 ELSE 0]]
  /\ SetLists(c, NoLists)
  /\ alert' = [alert EXCEPT ![c] = ""]
  /\ UNCHANGED <<dbVars, authUser, reg, gate, scope, rankDocs, loadDocs,
                 paymentDocs, meetingDocs, nearby, directory>>


\* ------------------------------------------------------------------------
\* MarshalDashboard: admin functions
\* ------------------------------------------------------------------------
approveUser_RankDropped(c, userId, role, rank) ==
  /\ DashboardShown(c)
  /\ hasPermission(marshalProfile[c], "approve_users")
  /\ pendingUsers[c][userId].exists
  /\ role \in Roles
  /\ rank \in RankNames \cup {NoRank}
  /\ role = "Marshal" => rank # NoRank
  /\ IF marshalls[userId].exists
     THEN /\ marshalls' = [marshalls EXCEPT ![userId] =
               [@ EXCEPT !.approved = TRUE, !.role = role,
                         !.permissions = ApprovalPermissions(role)]]
          /\ SetLists(c, <<loadPendingUsers(marshalls'),
                           loadApprovedMarshals(marshalls'),
                           taxis[c], taxiRanks[c], selectedRank[c]>>)
          /\ LogActivity
     ELSE UNCHANGED <<marshalls, activityLogs, listVars>>
  /\ UNCHANGED <<accounts, taxiDocs, sessionVars, gate, scope, registryVars>>

\* approveUser(userId, role, rank), called by handleApproval of AdminPanel
\* for a user of the pending list
approveUser(c, userId, role, rank) ==
  /\ DashboardShown(c)
  /\ hasPermission(marshalProfile[c], "approve_users")
  /\ pendingUsers[c][userId].exists
  /\ role \in Roles
  /\ rank \in RankNames \cup {NoRank}
  /\ role = "Marshal" => rank # NoRank
  /\ IF marshalls[userId].exists
     THEN /\ marshalls' = [marshalls EXCEPT ![userId] =
               [@ EXCEPT !.approved = TRUE, !.role = role, !.rank = rank,
                         !.permissions = ApprovalPermissions(role)]]
          /\ SetLists(c, <<loadPendingUsers(marshalls'),
                           loadApprovedMarshals(marshalls'),
                           taxis[c], taxiRanks[c], selectedRank[c]>>)
          /\ LogActivity
     ELSE UNCHANGED <<marshalls, activityLogs, listVars>>
  /\ UNCHANGED <<accounts, taxiDocs, sessionVars, gate, scope, registryVars>>

\* rejectUser(userId) for a user of the pending list, confirmed
rejectUser(c, userId) ==
  /\ DashboardShown(c)
  /\ hasPermission(marshalProfile[c], "approve_users")
  /\ pendingUsers[c][userId].exists
  /\ marshalls' = [marshalls EXCEPT ![userId] = NoDoc]
  /\ SetLists(c, <<loadPendingUsers(marshalls'),
                   approvedMarshals[c],
                   taxis[c], taxiRanks[c], selectedRank[c]>>)
  /\ LogActivity
  /\ UNCHANGED <<accounts, taxiDocs, sessionVars, gate, scope, registryVars>>

\* createAdmin(adminData) for a fresh principal: the provider signs the new
\* principal in on this browser
createAdmin(c, u) ==
  /\ DashboardShown(c)
  /\ hasPermission(marshalProfile[c], "approve_users")
  /\ reg[c].step = "idle"
  /\ u \notin accounts
  /\ \A v \in Uids : v < u => v \in accounts
  /\ CanStartHandler(c)
  /\ accounts' = accounts \cup {u}
  /\ AuthState(c, u)
  /\ marshalls' = [marshalls EXCEPT ![u] = CreatedAdminProfile(u)]
  /\ SetLists(c, <<pendingUsers[c],
                   loadApprovedMarshals(marshalls'),
                   taxis[c], taxiRanks[c], selectedRank[c]>>)
  /\ LogActivity
  /\ UNCHANGED <<taxiDocs, app, error, reg, gate, scope, registryVars>>

\* editUser(userId, userData) from the edit modal of the approved-users table
editUser(c, userId, role, rank) ==
  /\ DashboardShown(c)
  /\ hasPermission(marshalProfile[c], "manage_users")
  /\ approvedMarshals[c][userId].exists
  /\ role \in Roles
  /\ rank \in RankNames \cup {NoRank}
  /\ role = "Marshal" => rank # NoRank
  /\ role # "Marshal" => rank = NoRank
  /\ IF marshalls[userId].exists
     THEN /\ marshalls' = [marshalls EXCEPT ![userId] =
               [@ EXCEPT !.role = role, !.rank = rank]]
          /\ SetLists(c, <<pendingUsers[c],
                           loadApprovedMarshals(marshalls'),
                           taxis[c], taxiRanks[c], selectedRank[c]>>)
          /\ LogActivity
     ELSE UNCHANGED <<marshalls, activityLogs, listVars>>
  /\ UNCHANGED <<accounts, taxiDocs, sessionVars, gate, scope, registryVars>>

\* toggleUserSuspension that reaches the dashboards bound to the profile
toggleUserSuspension_Pushes(c, userId) ==
  /\ DashboardShown(c)
  /\ hasPermission(marshalProfile[c], "manage_users")
  /\ approvedMarshals[c][userId].exists
  /\ marshalls[userId].exists
  /\ marshalls' = [marshalls EXCEPT ![userId].suspended =
       ~approvedMarshals[c][userId].suspended]
  /\ marshalProfile' = [d \in Clients |->
       IF marshalProfile[d].exists /\ marshalProfile[d].uid = userId
       THEN marshalls'[userId] ELSE marshalProfile[d]]
  /\ SetLists(c, <<pendingUsers[c], loadApprovedMarshals(marshalls'),
                   taxis[c], taxiRanks[c], selectedRank[c]>>)
  /\ LogActivity
  /\ UNCHANGED <<accounts, taxiDocs, authUser, app, user, adminProfile, error,
                 inflight, reg, gate, scope, registryVars>>

\* toggleUserSuspension(userId, currentStatus), confirmed; currentStatus is
\* the flag shown in the approved-users table
toggleUserSuspension(c, userId) ==
  /\ DashboardShown(c)
  /\ hasPermission(marshalProfile[c], "manage_users")
  /\ approvedMarshals[c][userId].exists
  /\ IF marshalls[userId].exists
     THEN /\ marshalls' = [marshalls EXCEPT ![userId].suspended =
               ~approvedMarshals[c][userId].suspended]
          /\ SetLists(c, <<pendingUsers[c],
                           loadApprovedMarshals(marshalls'),
                           taxis[c], taxiRanks[c], selectedRank[c]>>)
          /\ LogActivity
     ELSE UNCHANGED <<marshalls, activityLogs, listVars>>
  /\ UNCHANGED <<accounts, taxiDocs, sessionVars, gate, scope, registryVars>>

\* the guard of deleteUser: the target is the last Admin of the loaded list
lastAdminGuard(list, userId) ==
  /\ list[userId].exists
  /\ list[userId].role = "Admin"
  /\ Cardinality(Admins(list)) <= 1

\* the ranks of the loaded list that hold the user and are gone from the
\* database
ranksGone(c, userId) ==
  {r \in RankIds : /\ userId \in taxiRanks[c][r].assignedMarshals
                   /\ ~rankDocs[r].exists}

Min(S) == CHOOSE x \in S : \A y \in S : x <= y

\* the loop over ranksToUpdate, run for the ranks before stop
ranksWithout(c, userId, stop) ==
  [r \in RankIds |->
     IF r < stop /\ userId \in taxiRanks[c][r].assignedMarshals
     THEN [rankDocs[r] EXCEPT !.assignedMarshals =
             taxiRanks[c][r].assignedMarshals \ {userId}]
     ELSE rankDocs[r]]

\* deleteUser that also removes the loads the user recorded
deleteUser_PurgesRecords(c, userId, confirmed) ==
  /\ DashboardShown(c)
  /\ hasPermission(marshalProfile[c], "manage_users")
  /\ approvedMarshals[c][userId].exists
  /\ IF lastAdminGuard(approvedMarshals[c], userId)
     THEN UNCHANGED <<marshalls, activityLogs, listVars, rankDocs>>
     ELSE IF ~confirmed
     THEN UNCHANGED <<marshalls, activityLogs, listVars, rankDocs>>
     ELSE IF ranksGone(c, userId) # {}
     THEN \* updateDoc of a rank that is gone throws: the ranks before it
          \* are written, the user is not deleted
          /\ rankDocs' = ranksWithout(c, userId, Min(ranksGone(c, userId)))
          /\ UNCHANGED <<marshalls, activityLogs, listVars>>
     ELSE /\ rankDocs' = ranksWithout(c, userId, MaxRanks + 1)
          /\ marshalls' = [marshalls EXCEPT ![userId] = NoDoc]
          /\ SetLists(c, <<pendingUsers[c], loadApprovedMarshals(marshalls'),
                           taxis[c], loadTaxiRanks(rankDocs'), selectedRank[c]>>)
          /\ LogActivity
  /\ loadDocs' = IF marshalls'[userId] = marshalls[userId] THEN loadDocs
                 ELSE LET Kept(load) == load.marshalId # userId
                      IN SelectSeq(loadDocs, Kept)
  /\ UNCHANGED <<accounts, taxiDocs, sessionVars, gate, scope, paymentDocs,
                 meetingDocs, alert, nearby, directory>>

\* deleteUser(userId, userEmail) from the delete modal; confirmed is the
\* answer to the prompt
deleteUser(c, userId, confirmed) ==
  /\ DashboardShown(c)
  /\ hasPermission(marshalProfile[c], "manage_users")
  /\ approvedMarshals[c][userId].exists
  /\ IF lastAdminGuard(approvedMarshals[c], userId)
     THEN UNCHANGED <<marshalls, activityLogs, listVars, rankDocs>>
     ELSE IF ~confirmed
     THEN UNCHANGED <<marshalls, activityLogs, listVars, rankDocs>>
     ELSE IF ranksGone(c, userId) # {}
     THEN \* updateDoc of a rank that is gone throws: the ranks before it
          \* are written, the user is not deleted
          /\ rankDocs' = ranksWithout(c, userId, Min(ranksGone(c, userId)))
          /\ UNCHANGED <<marshalls, activityLogs, listVars>>
     ELSE /\ rankDocs' = ranksWithout(c, userId, MaxRanks + 1)
          /\ marshalls' = [marshalls EXCEPT ![userId] = NoDoc]
          /\ SetLists(c, <<pendingUsers[c], loadApprovedMarshals(marshalls'),
                           taxis[c], loadTaxiRanks(rankDocs'), selectedRank[c]>>)
          /\ LogActivity
  /\ UNCHANGED <<accounts, taxiDocs, sessionVars, gate, scope, loadDocs,
                 paymentDocs, meetingDocs, alert, nearby, directory>>


\* ------------------------------------------------------------------------
\* AdminDashboard: UserManagementPanel
\* ------------------------------------------------------------------------
\* handleApproveUser(userId, userEmail) for a user of the pending list
handleApproveUser(c, userId) ==
  /\ AdminDashboardShown(c)
  /\ pendingUsers[c][userId].exists
  /\ IF marshalls[userId].exists
     THEN /\ marshalls' = [marshalls EXCEPT ![userId].approved = TRUE]
          /\ SetLists(c, <<loadPendingUsers(marshalls'),
                           loadApprovedMarshals(marshalls'), taxis[c],
                           loadTaxiRanks(rankDocs), selectedRank[c]>>)
          /\ LogActivity
     ELSE UNCHANGED <<marshalls, activityLogs, listVars>>
  /\ UNCHANGED <<accounts, taxiDocs, sessionVars, gate, scope, registryVars>>

\* handleRejectUser(userId, userEmail), confirmed
handleRejectUser(c, userId) ==
  /\ AdminDashboardShown(c)
  /\ pendingUsers[c][userId].exists
  /\ marshalls' = [marshalls EXCEPT ![userId] = NoDoc]
  /\ SetLists(c, <<loadPendingUsers(marshalls'),
                   loadApprovedMarshals(marshalls'), taxis[c],
                   loadTaxiRanks(rankDocs), selectedRank[c]>>)
  /\ LogActivity
  /\ UNCHANGED <<accounts, taxiDocs, sessionVars, gate, scope, registryVars>>

\* handleSuspendUser(userId, userEmail, currentStatus) for a user of the
\* approved list
handleSuspendUser(c, userId) ==
  /\ AdminDashboardShown(c)
  /\ approvedMarshals[c][userId].exists
  /\ IF marshalls[userId].exists
     THEN /\ marshalls' = [marshalls EXCEPT ![userId].suspended =
               ~approvedMarshals[c][userId].suspended]
          /\ SetLists(c, <<loadPendingUsers(marshalls'),
                           loadApprovedMarshals(marshalls'), taxis[c],
                           loadTaxiRanks(rankDocs), selectedRank[c]>>)
          /\ LogActivity
     ELSE UNCHANGED <<marshalls, activityLogs, listVars>>
  /\ UNCHANGED <<accounts, taxiDocs, sessionVars, gate, scope, registryVars>>

\* handleChangeRole(newRole) for the selected user of the approved list
handleChangeRole(c, userId, newRole) ==
  /\ AdminDashboardShown(c)
  /\ approvedMarshals[c][userId].exists
  /\ newRole \in Roles
  /\ IF marshalls[userId].exists
     THEN /\ marshalls' = [marshalls EXCEPT ![userId].role = newRole]
          /\ SetLists(c, <<loadPendingUsers(marshalls'),
                           loadApprovedMarshals(marshalls'), taxis[c],
                           loadTaxiRanks(rankDocs), selectedRank[c]>>)
          /\ LogActivity
     ELSE UNCHANGED <<marshalls, activityLogs, listVars>>
  /\ UNCHANGED <<accounts, taxiDocs, sessionVars, gate, scope, registryVars>>

\* ------------------------------------------------------------------------
\* MarshalDashboard: marshal functions
\* ------------------------------------------------------------------------
\* the text of the alert a failed permission check raises
PermissionAlert == "no-permission"

\* the panels of the Marshal tabs are rendered for the role Marshal only
MarshalPanelsShown(c) ==
  /\ DashboardShown(c)
  /\ marshalProfile[c].role = "Marshal"

\* addTaxi(taxiData): the new taxi carries the rank of the bound profile
addTaxi(c, t) ==
  /\ MarshalPanelsShown(c)
  /\ ~taxiDocs[t].exists
  /\ \A s \in TaxiIds : s < t => taxiDocs[s].exists
  /\ IF ~hasPermission(marshalProfile[c], "add_taxis")
     THEN /\ alert' = [alert EXCEPT ![c] = PermissionAlert]
          /\ UNCHANGED <<taxiDocs, listVars>>
     ELSE /\ taxiDocs' = [taxiDocs EXCEPT ![t] =
               [exists |-> TRUE, assignedRank |-> marshalProfile[c].rank,
                totalLoads |-> 0, membershipPaidUntil |-> NoDate]]
          /\ SetLists(c, <<pendingUsers[c], approvedMarshals[c],
                           loadTaxis(marshalProfile[c], taxiDocs'), taxiRanks[c],
                           selectedRank[c]>>)
          /\ UNCHANGED alert
  /\ UNCHANGED <<marshalls, accounts, activityLogs, sessionVars, gate, scope,
                 rankDocs, loadDocs, paymentDocs, meetingDocs, nearby, directory>>

\* ------------------------------------------------------------------------
\* MarshalDashboard: loads, payments, meetings
\* ------------------------------------------------------------------------
\* AdminPanel is rendered on the admin tab of a profile that may approve
AdminPanelShown(c) ==
  /\ DashboardShown(c)
  /\ hasPermission(marshalProfile[c], "approve_users")

\* the text of the alert the catch block of a handler raises
FailureAlert == "failed"

\* what becomes of the second write of a handler: it is written, it is
\* rejected (the catch block runs), or the browser stops before it
Outcomes == {"written", "failed", "stopped"}

recordLoad_Increment(c, selectedTaxi, second) ==
  /\ MarshalPanelsShown(c)
  /\ taxis[c][selectedTaxi].exists
  /\ second \in Outcomes
  /\ hasPermission(marshalProfile[c], "record_loads")
  /\ Len(loadDocs) < MaxLoads
  /\ loadDocs' = Append(loadDocs,
       [taxiId |-> selectedTaxi, marshalId |-> user[c],
        marshalRank |-> marshalProfile[c].rank])
  /\ taxiDocs' = [taxiDocs EXCEPT ![selectedTaxi].totalLoads = @ + 1]
  /\ SetLists(c, <<pendingUsers[c], approvedMarshals[c],
                   loadTaxis(marshalProfile[c], taxiDocs'),
                   taxiRanks[c], selectedRank[c]>>)
  /\ UNCHANGED <<marshalls, accounts, activityLogs, sessionVars, gate, scope,
                 rankDocs, paymentDocs, meetingDocs, alert, nearby, directory>>

recordLoad_CounterFirst(c, selectedTaxi, second) ==
  /\ MarshalPanelsShown(c)
  /\ taxis[c][selectedTaxi].exists
  /\ second \in Outcomes
  /\ hasPermission(marshalProfile[c], "record_loads")
  /\ Len(loadDocs) < MaxLoads
  /\ taxiDocs' = [taxiDocs EXCEPT ![selectedTaxi].totalLoads =
       taxis[c][selectedTaxi].totalLoads + 1]
  /\ SetLists(c, <<pendingUsers[c], approvedMarshals[c],
                   loadTaxis(marshalProfile[c], taxiDocs'),
                   taxiRanks[c], selectedRank[c]>>)
  /\ IF second = "written"
     THEN loadDocs' = Append(loadDocs,
            [taxiId |-> selectedTaxi, marshalId |-> user[c],
             marshalRank |-> marshalProfile[c].rank])
     ELSE UNCHANGED loadDocs
  /\ UNCHANGED <<marshalls, accounts, activityLogs, sessionVars, gate, scope,
                 rankDocs, paymentDocs, meetingDocs, alert, nearby, directory>>

recordLoad_RollsBack(c, selectedTaxi, second) ==
  /\ MarshalPanelsShown(c)
  /\ taxis[c][selectedTaxi].exists
  /\ second \in Outcomes
  /\ hasPermission(marshalProfile[c], "record_loads")
  /\ Len(loadDocs) < MaxLoads
  /\ IF second = "written"
     THEN /\ loadDocs' = Append(loadDocs,
               [taxiId |-> selectedTaxi, marshalId |-> user[c],
                marshalRank |-> marshalProfile[c].rank])
          /\ taxiDocs' = [taxiDocs EXCEPT ![selectedTaxi].totalLoads =
               taxis[c][selectedTaxi].totalLoads + 1]
          /\ SetLists(c, <<pendingUsers[c], approvedMarshals[c],
                           loadTaxis(marshalProfile[c], taxiDocs'),
                           taxiRanks[c], selectedRank[c]>>)
          /\ UNCHANGED alert
     ELSE /\ alert' = [alert EXCEPT ![c] = FailureAlert]
          /\ UNCHANGED <<loadDocs, taxiDocs, listVars>>
  /\ UNCHANGED <<marshalls, accounts, activityLogs, sessionVars, gate, scope,
                 rankDocs, paymentDocs, meetingDocs, nearby, directory>>

\* recordLoad() for the taxi selected in OverviewPanel: the load record is
\* added, then the counter of the taxi is written from the loaded list; an
\* updateDoc that is rejected (always so for a missing document) raises the
\* failure alert of the catch block, and nothing undoes the load record
recordLoad(c, selectedTaxi, second) ==
  /\ MarshalPanelsShown(c)
  /\ taxis[c][selectedTaxi].exists
  /\ second \in Outcomes
  /\ IF ~hasPermission(marshalProfile[c], "record_loads")
     THEN /\ second = "written"
          /\ alert' = [alert EXCEPT ![c] = PermissionAlert]
          /\ UNCHANGED <<loadDocs, taxiDocs, listVars>>
     ELSE /\ Len(loadDocs) < MaxLoads
          /\ loadDocs' = Append(loadDocs,
               [taxiId |-> selectedTaxi, marshalId |-> user[c],
                marshalRank |-> marshalProfile[c].rank])
          /\ ~taxiDocs[selectedTaxi].exists => second # "written"
          /\ CASE second = "written" ->
                    /\ taxiDocs' = [taxiDocs EXCEPT ![selectedTaxi].totalLoads =
                         taxis[c][selectedTaxi].totalLoads + 1]
                    /\ SetLists(c, <<pendingUsers[c], approvedMarshals[c],
                                     loadTaxis(marshalProfile[c], taxiDocs'),
                                     taxiRanks[c], selectedRank[c]>>)
                    /\ UNCHANGED alert
               [] second = "failed" ->
                    /\ alert' = [alert EXCEPT ![c] = FailureAlert]
                    /\ UNCHANGED <<taxiDocs, listVars>>
               [] OTHER -> UNCHANGED <<taxiDocs, listVars, alert>>
  /\ UNCHANGED <<marshalls, accounts, activityLogs, sessionVars, gate, scope,
                 rankDocs, paymentDocs, meetingDocs, nearby, directory>>

\* the date the payment form of PaymentsPanel is submitted with
PaymentDates ==
  {[year |-> 2025, month |-> 3, day |-> 15]}

\* handleRecordPayment of PaymentsPanel and recordPayment(paymentData)
recordPayment(c, selectedTaxi, paymentDate) ==
  /\ MarshalPanelsShown(c)
  /\ taxis[c][selectedTaxi].exists
  /\ paymentDate \in PaymentDates
  /\ IF ~hasPermission(marshalProfile[c], "record_payments")
     THEN /\ alert' = [alert EXCEPT ![c] = PermissionAlert]
          /\ UNCHANGED paymentDocs
     ELSE /\ Len(paymentDocs) < MaxPayments
          /\ paymentDocs' = Append(paymentDocs,
               [taxiId |-> selectedTaxi, amount |-> 150,
                paymentDate |-> paymentDate, recordedBy |-> user[c]])
          /\ UNCHANGED alert
  /\ UNCHANGED <<marshalls, accounts, taxiDocs, activityLogs, sessionVars,
                 listVars, gate, scope, rankDocs, loadDocs, meetingDocs, nearby, directory>>

\* createMeeting(meetingData)
createMeeting(c) ==
  /\ MarshalPanelsShown(c)
  /\ IF ~hasPermission(marshalProfile[c], "manage_meetings")
     THEN /\ alert' = [alert EXCEPT ![c] = PermissionAlert]
          /\ UNCHANGED meetingDocs
     ELSE /\ meetingDocs < MaxMeetings
          /\ meetingDocs' = meetingDocs + 1
          /\ UNCHANGED alert
  /\ UNCHANGED <<marshalls, accounts, taxiDocs, activityLogs, sessionVars,
                 listVars, gate, scope, rankDocs, loadDocs, paymentDocs, nearby, directory>>

\* ------------------------------------------------------------------------
\* Taxi ranks
\* ------------------------------------------------------------------------
\* the rows the route form of the create-rank modal can hold: a complete
\* row, a row without its fare, the blank row the form starts with
RouteRows ==
  {[departure |-> "Bree", destination |-> "Soweto", fare |-> "15"],
   [departure |-> "Bree", destination |-> "Soweto", fare |-> ""],
   [departure |-> "", destination |-> "", fare |-> ""]}

\* the aisles handleAisleCountChange builds for a count
AislesFor(count) ==
  [i \in 1..count |-> [aisleNumber |-> i, name |-> "Aisle", capacity |-> 0]]

\* the fares the fare form of the admin interface can hold
FareRows ==
  {[route |-> "Bree - Soweto", price |-> 15],
   [route |-> "Bree - Alexandra", price |-> 12]}

RECURSIVE SeqsUpTo(_, _)
SeqsUpTo(S, n) ==
  IF n = 0 THEN {<<>>}
  ELSE LET shorter == SeqsUpTo(S, n - 1)
       IN shorter \cup {Append(q, x) : q \in {p \in shorter : Len(p) = n - 1}, x \in S}

\* the states of the route form of the create-rank modal
RouteForms == SeqsUpTo(RouteRows, MaxEntries)

\* route => route.departure && route.destination && route.fare
CompleteRoute(route) ==
  /\ route.departure # ""
  /\ route.destination # ""
  /\ route.fare # ""

\* the id addDoc gives a new document of taxiRanks
FreshRankId(r) ==
  /\ r \in RankIds
  /\ ~rankDocs[r].exists
  /\ ~rankDocs[r].deleted
  /\ \A q \in RankIds : q < r => (rankDocs[q].exists \/ rankDocs[q].deleted)

\* addTaxiRank without its permission check
addTaxiRank_Ungated(c, r, name, count) ==
  /\ MarshalPanelsShown(c)
  /\ name \in RankNames
  /\ count \in 0..MaxEntries
  /\ FreshRankId(r)
  /\ rankDocs' = [rankDocs EXCEPT ![r] =
       [NoRankDoc EXCEPT !.exists = TRUE, !.id = r, !.name = name,
                         !.aisles = AislesFor(count)]]
  /\ SetLists(c, <<pendingUsers[c], approvedMarshals[c], taxis[c],
                   loadTaxiRanks(rankDocs'), selectedRank[c]>>)
  /\ UNCHANGED <<marshalls, accounts, taxiDocs, activityLogs, sessionVars,
                 gate, scope, loadDocs, paymentDocs, meetingDocs, alert, nearby, directory>>

\* addTaxiRank(rankData), called by handleAddRank of TaxiRanksPanel with the
\* aisles of the form
addTaxiRank(c, r, name, count) ==
  /\ MarshalPanelsShown(c)
  /\ name \in RankNames
  /\ count \in 0..MaxEntries
  /\ IF ~hasPermission(marshalProfile[c], "add_ranks")
     THEN /\ r = 1
          /\ alert' = [alert EXCEPT ![c] = PermissionAlert]
          /\ UNCHANGED <<rankDocs, listVars>>
     ELSE /\ FreshRankId(r)
          /\ rankDocs' = [rankDocs EXCEPT ![r] =
               [NoRankDoc EXCEPT !.exists = TRUE, !.id = r, !.name = name,
                                 !.aisles = AislesFor(count)]]
          /\ SetLists(c, <<pendingUsers[c], approvedMarshals[c], taxis[c],
                           loadTaxiRanks(rankDocs'), selectedRank[c]>>)
          /\ UNCHANGED alert
  /\ UNCHANGED <<marshalls, accounts, taxiDocs, activityLogs, sessionVars,
                 gate, scope, loadDocs, paymentDocs, meetingDocs, nearby, directory>>

\* handleCreateRank of AdminPanel with the rows of the route form
handleCreateRank(c, r, name, newRankRoutes) ==
  /\ AdminPanelShown(c)
  /\ name \in RankNames
  /\ newRankRoutes \in RouteForms
  /\ FreshRankId(r)
  /\ rankDocs' = [rankDocs EXCEPT ![r] =
       [NoRankDoc EXCEPT !.exists = TRUE, !.id = r, !.name = name,
                         !.routes = SelectSeq(newRankRoutes, CompleteRoute)]]
  /\ SetLists(c, <<pendingUsers[c], approvedMarshals[c], taxis[c],
                   loadTaxiRanks(rankDocs'), selectedRank[c]>>)
  /\ UNCHANGED <<marshalls, accounts, taxiDocs, activityLogs, sessionVars,
                 gate, scope, loadDocs, paymentDocs, meetingDocs, alert, nearby, directory>>

\* handleDeleteRank(rankId) of AdminPanel, confirmed
handleDeleteRank(c, rankId) ==
  /\ AdminPanelShown(c)
  /\ taxiRanks[c][rankId].exists
  /\ rankDocs' = [rankDocs EXCEPT ![rankId] = [NoRankDoc EXCEPT !.deleted = TRUE]]
  /\ SetLists(c, <<pendingUsers[c], approvedMarshals[c], taxis[c],
                   loadTaxiRanks(rankDocs'), selectedRank[c]>>)
  /\ UNCHANGED <<marshalls, accounts, taxiDocs, activityLogs, sessionVars,
                 gate, scope, loadDocs, paymentDocs, meetingDocs, alert, nearby, directory>>

\* handleAssignMarshalsToRank of AdminPanel for one selected marshal or
\* supervisor of the approved list
handleAssignMarshalsToRank(c, selectedRankId, marshalId) ==
  /\ AdminPanelShown(c)
  /\ taxiRanks[c][selectedRankId].exists
  /\ approvedMarshals[c][marshalId].exists
  /\ approvedMarshals[c][marshalId].role \in {"Marshal", "Supervisor"}
  /\ IF rankDocs[selectedRankId].exists
     THEN /\ rankDocs' = [rankDocs EXCEPT ![selectedRankId].assignedMarshals =
               {marshalId}]
          /\ IF marshalls[marshalId].exists
             THEN /\ marshalls' = [marshalls EXCEPT ![marshalId].rank =
                       rankDocs[selectedRankId].name]
                  /\ SetLists(c, <<pendingUsers[c],
                                   loadApprovedMarshals(marshalls'), taxis[c],
                                   loadTaxiRanks(rankDocs'), selectedRank[c]>>)
             ELSE UNCHANGED <<marshalls, listVars>>
     ELSE UNCHANGED <<rankDocs, marshalls, listVars>>
  /\ UNCHANGED <<accounts, taxiDocs, activityLogs, sessionVars, gate, scope,
                 loadDocs, paymentDocs, meetingDocs, alert, nearby, directory>>

\* handleRemoveUserFromRank(userId, rankId, rankName) of AdminPanel,
\* confirmed
handleRemoveUserFromRank(c, userId, rankId) ==
  /\ AdminPanelShown(c)
  /\ taxiRanks[c][rankId].exists
  /\ approvedMarshals[c][userId].exists
  /\ \/ userId \in taxiRanks[c][rankId].assignedMarshals
     \/ approvedMarshals[c][userId].rank = taxiRanks[c][rankId].name
  /\ IF rankDocs[rankId].exists
     THEN /\ rankDocs' = [rankDocs EXCEPT ![rankId].assignedMarshals = @ \ {userId}]
          /\ IF marshalls[userId].exists
             THEN /\ marshalls' = [marshalls EXCEPT ![userId].rank = NoRank]
                  /\ SetLists(c, <<pendingUsers[c],
                                   loadApprovedMarshals(marshalls'), taxis[c],
                                   loadTaxiRanks(rankDocs'), selectedRank[c]>>)
             ELSE UNCHANGED <<marshalls, listVars>>
     ELSE UNCHANGED <<rankDocs, marshalls, listVars>>
  /\ UNCHANGED <<accounts, taxiDocs, activityLogs, sessionVars, gate, scope,
                 loadDocs, paymentDocs, meetingDocs, alert, nearby, directory>>

\* the elements of a set of principals in ascending order
RECURSIVE Ascending(_)
Ascending(S) == IF S = {} THEN <<>> ELSE <<Min(S)>> \o Ascending(S \ {Min(S)})

\* the user loops of handleReassignUsers: rank: name for the users added,
\* then rank: null for the users removed, up to the first updateDoc that is
\* rejected because the profile is gone; the writes before it stay
reassigned(usersToAdd, usersToRemove, name) ==
  LET order == Ascending(usersToAdd) \o Ascending(usersToRemove)
      stop == Min({i \in 1..Len(order) : ~marshalls[order[i]].exists}
                  \cup {Len(order) + 1})
      done == {order[i] : i \in 1..(stop - 1)}
  IN [complete |-> stop = Len(order) + 1,
      col |-> [u \in Uids |->
                 IF u \notin done THEN marshalls[u]
                 ELSE [marshalls[u] EXCEPT !.rank =
                         IF u \in usersToAdd THEN name ELSE NoRank]]]

\* handleOpenManageRank(rank) for a rank of the loaded list, the check boxes
\* set to selectedMarshalIds, then handleReassignUsers()
handleReassignUsers(c, rankId, selectedMarshalIds) ==
  /\ AdminPanelShown(c)
  /\ taxiRanks[c][rankId].exists
  /\ LET rankToManage == taxiRanks[c][rankId]
         currentlyAssigned ==
           {u \in Uids : /\ approvedMarshals[c][u].exists
                         /\ \/ u \in rankToManage.assignedMarshals
                            \/ approvedMarshals[c][u].rank = rankToManage.name}
         selectable ==
           {u \in Uids : /\ approvedMarshals[c][u].exists
                         /\ approvedMarshals[c][u].role \in {"Marshal", "Supervisor"}}
         usersToAdd == selectedMarshalIds \ currentlyAssigned
         usersToRemove == currentlyAssigned \ selectedMarshalIds
         written == reassigned(usersToAdd, usersToRemove, rankToManage.name)
     IN /\ selectedMarshalIds \subseteq currentlyAssigned \cup selectable
        /\ (currentlyAssigned \ selectable) \subseteq selectedMarshalIds
        /\ IF rankDocs[rankId].exists
           THEN /\ rankDocs' = [rankDocs EXCEPT ![rankId].assignedMarshals =
                     selectedMarshalIds]
                /\ marshalls' = written.col
                /\ IF written.complete
                   THEN SetLists(c, <<pendingUsers[c],
                                      loadApprovedMarshals(marshalls'), taxis[c],
                                      loadTaxiRanks(rankDocs'), selectedRank[c]>>)
                   ELSE UNCHANGED listVars
           ELSE UNCHANGED <<rankDocs, marshalls, listVars>>
  /\ UNCHANGED <<accounts, taxiDocs, activityLogs, sessionVars, gate, scope,
                 loadDocs, paymentDocs, meetingDocs, alert, nearby, directory>>

\* handleAddRank of TaxiRankManagementPanel (admin interface): the rank
\* starts without fares
handleAddRank(c, r, name) ==
  /\ AdminDashboardShown(c)
  /\ name \in RankNames
  /\ FreshRankId(r)
  /\ rankDocs' = [rankDocs EXCEPT ![r] =
       [NoRankDoc EXCEPT !.exists = TRUE, !.id = r, !.name = name]]
  /\ LogActivity
  /\ SetLists(c, <<loadPendingUsers(marshalls), loadApprovedMarshals(marshalls),
                   taxis[c], loadTaxiRanks(rankDocs'), selectedRank[c]>>)
  /\ UNCHANGED <<marshalls, accounts, taxiDocs, sessionVars, gate, scope,
                 loadDocs, paymentDocs, meetingDocs, alert, nearby, directory>>

\* openFareManagementModal(rank) for a rank of the loaded list
openFareManagementModal(c, rankId) ==
  /\ AdminDashboardShown(c)
  /\ taxiRanks[c][rankId].exists
  /\ selectedRank[c] # taxiRanks[c][rankId]
  /\ selectedRank' = [selectedRank EXCEPT ![c] = taxiRanks[c][rankId]]
  /\ UNCHANGED <<dbVars, sessionVars, pendingUsers, approvedMarshals, taxis,
                 taxiRanks, gate, scope, registryVars>>

\* handleAddFare of TaxiRankManagementPanel with the fare of the form: the
\* new list is built from the rank the modal was opened with
handleAddFare(c, newFare) ==
  /\ AdminDashboardShown(c)
  /\ selectedRank[c].exists
  /\ newFare \in FareRows
  /\ Len(selectedRank[c].fares) < MaxEntries
  /\ IF rankDocs[selectedRank[c].id].exists
     THEN /\ rankDocs' = [rankDocs EXCEPT ![selectedRank[c].id].fares =
               Append(selectedRank[c].fares, newFare)]
          /\ LogActivity
          /\ SetLists(c, <<loadPendingUsers(marshalls),
                           loadApprovedMarshals(marshalls), taxis[c],
                           loadTaxiRanks(rankDocs'), selectedRank[c]>>)
     ELSE UNCHANGED <<rankDocs, activityLogs, listVars>>
  /\ UNCHANGED <<marshalls, accounts, taxiDocs, sessionVars, gate, scope,
                 loadDocs, paymentDocs, meetingDocs, alert, nearby, directory>>

\* openEditModal(rank) for a rank of the loaded list: the form is filled
\* from the rank
openEditModal(c, rankId) ==
  /\ AdminDashboardShown(c)
  /\ taxiRanks[c][rankId].exists
  /\ selectedRank[c] # taxiRanks[c][rankId]
  /\ selectedRank' = [selectedRank EXCEPT ![c] = taxiRanks[c][rankId]]
  /\ UNCHANGED <<dbVars, sessionVars, pendingUsers, approvedMarshals, taxis,
                 taxiRanks, gate, scope, registryVars>>

\* handleEditRank of TaxiRankManagementPanel with the name of the form: the
\* rank document is updated and the action logged; no profile is written
handleEditRank(c, name) ==
  /\ AdminDashboardShown(c)
  /\ selectedRank[c].exists
  /\ name \in RankNames
  /\ IF rankDocs[selectedRank[c].id].exists
     THEN /\ rankDocs' = [rankDocs EXCEPT ![selectedRank[c].id].name = name]
          /\ LogActivity
          /\ SetLists(c, <<loadPendingUsers(marshalls),
                           loadApprovedMarshals(marshalls), taxis[c],
                           loadTaxiRanks(rankDocs'), NoRankDoc>>)
     ELSE UNCHANGED <<rankDocs, activityLogs, listVars>>
  /\ UNCHANGED <<marshalls, accounts, taxiDocs, sessionVars, gate, scope,
                 loadDocs, paymentDocs, meetingDocs, alert, nearby, directory>>

\* ------------------------------------------------------------------------
\* The system
\* ------------------------------------------------------------------------
\* the login screen, the session handlers and the user administration of
\* both applications
NextSession ==
  \/ \E c \in Clients, u \in Uids : handleLogin(c, u)
  \/ \E c \in Clients : handleLogout(c)
  \/ \E c \in Clients, u \in Uids : handleRegister_create(c, u)
  \/ \E c \in Clients, ok \in BOOLEAN : handleRegister_setDoc(c, ok)
  \/ \E c \in Clients : handleRegister_signOut(c)
  \/ \E c \in Clients, u \in Uids : onAuthStateChanged(c, u)
  \/ \E c \in Clients, a \in {"MarshalApp", "AdminApp"} : Mount(c, a)
  \/ \E c \in Clients, u \in Uids, r \in Roles, k \in RankNames \cup {NoRank} :
       approveUser(c, u, r, k)
  \/ \E c \in Clients, u \in Uids : rejectUser(c, u)
  \/ \E c \in Clients, u \in Uids : createAdmin(c, u)
  \/ \E c \in Clients, u \in Uids, r \in Roles, k \in RankNames \cup {NoRank} :
       editUser(c, u, r, k)
  \/ \E c \in Clients, u \in Uids : toggleUserSuspension(c, u)
  \/ \E c \in Clients, u \in Uids, ok \in BOOLEAN : deleteUser(c, u, ok)
  \/ \E c \in Clients, u \in Uids : handleApproveUser(c, u)
  \/ \E c \in Clients, u \in Uids : handleRejectUser(c, u)
  \/ \E c \in Clients, u \in Uids : handleSuspendUser(c, u)
  \/ \E c \in Clients, u \in Uids, r \in Roles : handleChangeRole(c, u, r)

\* the system without the taxi registry
SpecSession == Init /\ [][NextSession]_vars

\* registrations alone: the steps of handleRegister at every browser and the
\* lookups of the handlers that the account creations and sign-outs start
NextRegister ==
  \/ \E c \in Clients, u \in Uids : handleRegister_create(c, u)
  \/ \E c \in Clients, ok \in BOOLEAN : handleRegister_setDoc(c, ok)
  \/ \E c \in Clients : handleRegister_signOut(c)
  \/ \E c \in Clients, u \in Uids : onAuthStateChanged(c, u)

\* a store with no account yet, or with the first administrator
InitRegister ==
  /\ \E known \in {{}, {1}} : InitPopulation(known)
  /\ gate = NoGate
  /\ scope = NoScope
  /\ nearby = NoNearby
  /\ directory = NoDirectory

SpecRegister == InitRegister /\ [][NextRegister]_vars

\* ------------------------------------------------------------------------
\* The registry: dashboards at work on taxis, loads, payments and ranks
\* ------------------------------------------------------------------------
\* the profile approveUser leaves for a Marshal of a rank
MarshalProfileAt(u, rank) ==
  [RegisteredProfile(u) EXCEPT !.approved = TRUE, !.role = "Marshal",
                               !.rank = rank,
                               !.permissions = ApprovalPermissions("Marshal")]

\* the sessions the registry is observed with: two devices of one Marshal,
\* an Admin and a Marshal, two Admins' role-based dashboards, two tabs of
\* the admin interface
Desks == {"marshals", "office", "admins", "adminApp"}

\* the system after the first Admin has approved (desks "marshals", "office"
\* and "colleagues") or is about to approve (other desks) principal 2, and
\* both browsers have signed in and run loadData
InitDesk(desk) ==
    LET staffed == desk \in {"marshals", "office", "colleagues", "console"}
        console == desk \in {"adminApp", "console"}
        staff == IF staffed THEN MarshalProfileAt(2, "Bree Taxi Rank")
                 ELSE RegisteredProfile(2)
        first == IF desk = "colleagues" THEN MarshalProfileAt(1, "Bree Taxi Rank")
                 ELSE CreatedAdminProfile(1)
        col == [u \in Uids |-> IF u = 1 THEN first
                                ELSE IF u = 2 THEN staff ELSE NoDoc]
        who == [c \in Clients |->
                  IF desk = "marshals" \/ (desk \in {"office", "colleagues"} /\ c = "c2")
                  THEN 2 ELSE 1]
        admin(c) == who[c] = 1 /\ desk # "colleagues"
    IN /\ marshalls = col
       /\ accounts = {1, 2}
       /\ taxiDocs = EmptyTaxis
       /\ activityLogs = IF staffed THEN 1 ELSE 0
       /\ rankDocs = EmptyRanks
       /\ loadDocs = <<>>
       /\ paymentDocs = <<>>
       /\ meetingDocs = 0
       /\ authUser = who
       /\ user = who
       /\ app = [c \in Clients |->
                   IF console THEN "AdminApp" ELSE "MarshalApp"]
       /\ marshalProfile = [c \in Clients |->
                   IF console THEN NoDoc ELSE col[who[c]]]
       /\ adminProfile = [c \in Clients |->
                   IF console THEN col[who[c]] ELSE NoDoc]
       /\ error = [c \in Clients |-> ""]
       /\ inflight = [c \in Clients |-> NoLookups]
       /\ reg = [c \in Clients |-> RegIdle]
       /\ pendingUsers = [c \in Clients |->
                   IF admin(c) THEN loadPendingUsers(col) ELSE EmptyUsers]
       /\ approvedMarshals = [c \in Clients |->
                   IF admin(c) THEN loadApprovedMarshals(col) ELSE EmptyUsers]
       /\ taxis = [c \in Clients |-> EmptyTaxis]
       /\ taxiRanks = [c \in Clients |-> EmptyRanks]
       /\ selectedRank = [c \in Clients |-> NoRankDoc]
       /\ alert = [c \in Clients |-> ""]
       /\ gate = NoGate
       /\ scope = NoScope
       /\ nearby = NoNearby
       /\ directory = NoDirectory

InitRegistry == \E desk \in Desks : InitDesk(desk)

\* the registry while every write reaches the database
NextRegistry ==
  \/ \E c \in Clients, t \in TaxiIds : addTaxi(c, t)
  \/ \E c \in Clients, t \in TaxiIds : recordLoad(c, t, "written")
  \/ \E c \in Clients, t \in TaxiIds, d \in PaymentDates : recordPayment(c, t, d)
  \/ \E c \in Clients : createMeeting(c)
  \/ \E c \in Clients, r \in RegistryRanks, n \in RankNames, k \in 0..MaxEntries :
       addTaxiRank(c, r, n, k)
  \/ \E c \in Clients, r \in RegistryRanks, n \in RankNames,
        q \in RouteForms :
       handleCreateRank(c, r, n, q)
  \/ \E c \in Clients, r \in RegistryRanks : handleDeleteRank(c, r)
  \/ \E c \in Clients, r \in RegistryRanks, u \in Uids :
       handleAssignMarshalsToRank(c, r, u)
  \/ \E c \in Clients, r \in RegistryRanks, u \in Uids :
       handleRemoveUserFromRank(c, u, r)
  \/ \E c \in Clients, r \in RegistryRanks, n \in RankNames : handleAddRank(c, r, n)
  \/ \E c \in Clients, r \in RegistryRanks : openFareManagementModal(c, r)
  \/ \E c \in Clients, f \in FareRows : handleAddFare(c, f)
  \/ \E c \in Clients, u \in Uids, k \in RankNames :
       approveUser(c, u, "Marshal", k)
  \/ \E c \in Clients, u \in Uids : rejectUser(c, u)
  \/ \E c \in Clients, u \in Uids : toggleUserSuspension(c, u)
  \/ \E c \in Clients, u \in Uids, ok \in BOOLEAN : deleteUser(c, u, ok)
  \/ \E c \in Clients, u \in Uids : handleApproveUser(c, u)
  \/ \E c \in Clients, u \in Uids : handleRejectUser(c, u)

SpecRegistry == InitRegistry /\ [][NextRegistry]_vars

\* ------------------------------------------------------------------------
\* Loads and payments with writes that fail: two devices of one Marshal, or
\* two Marshals of one rank (the first Admin after editUser made it one)
\* ------------------------------------------------------------------------
InitLoads == InitDesk("marshals") \/ InitDesk("colleagues")

NextLoads ==
  \/ \E c \in Clients, t \in TaxiIds : addTaxi(c, t)
  \/ \E c \in Clients, t \in TaxiIds, o \in Outcomes : recordLoad(c, t, o)
  \/ \E c \in Clients, t \in TaxiIds, d \in PaymentDates : recordPayment(c, t, d)

SpecLoads == InitLoads /\ [][NextLoads]_vars

\* ------------------------------------------------------------------------
\* Ranks and the users assigned to them: two Admins at the role-based
\* dashboard with principal 2 awaiting approval, or two tabs of the admin
\* interface with principal 2 a Marshal of Bree Taxi Rank
\* ------------------------------------------------------------------------
InitRanks == InitDesk("admins") \/ InitDesk("console")

NextRanks ==
  \/ \E c \in Clients, u \in Uids, k \in RankNames :
       approveUser(c, u, "Marshal", k)
  \/ \E c \in Clients, r \in RankIds, n \in RankNames :
       handleCreateRank(c, r, n, <<>>)
  \/ \E c \in Clients, r \in RankIds : handleDeleteRank(c, r)
  \/ \E c \in Clients, r \in RankIds, u \in Uids :
       handleAssignMarshalsToRank(c, r, u)
  \/ \E c \in Clients, r \in RankIds, S \in SUBSET Uids :
       handleReassignUsers(c, r, S)
  \/ \E c \in Clients, r \in RankIds, u \in Uids :
       handleRemoveUserFromRank(c, u, r)
  \/ \E c \in Clients, u \in Uids : deleteUser(c, u, TRUE)
  \/ \E c \in Clients, r \in RankIds, n \in RankNames : handleAddRank(c, r, n)
  \/ \E c \in Clients, r \in RankIds : openEditModal(c, r)
  \/ \E c \in Clients, n \in RankNames : handleEditRank(c, n)

SpecRanks == InitRanks /\ [][NextRanks]_vars

\* the whole system
Next ==
  \/ NextSession
  \/ NextRegistry
  \/ NextLoads
  \/ NextRanks

Spec == Init /\ [][Next]_vars

\* ------------------------------------------------------------------------
\* The Action Gate as a function of its inputs
\* ------------------------------------------------------------------------
\* the permissions arrays the code stores on a profile
StoredPermissions ==
  {{}, AdminPermissions, ApprovalPermissions("Supervisor"),
   ApprovalPermissions("Marshal"), {"all"}}

\* a bound profile, or null
GateProfiles ==
  {NoDoc} \cup
  {[exists |-> TRUE, uid |-> 1, role |-> r, rank |-> NoRank,
    permissions |-> p, approved |-> TRUE, suspended |-> FALSE] :
     r \in Roles \cup {NULL}, p \in StoredPermissions}

InitGate ==
  /\ InitSystem
  /\ scope = NoScope
  /\ nearby = NoNearby
  /\ directory = NoDirectory
  /\ \E p \in GateProfiles, a \in ActionTags :
       gate = [NoGate EXCEPT !.profile = p, !.action = a]

\* hasPermission(action) of both dashboards for the profile of the gate
evaluateGate ==
  /\ ~gate.evaluated
  /\ gate' = [gate EXCEPT !.evaluated = TRUE,
                          !.result = hasPermission(gate.profile, gate.action),
                          !.arrayResult = hasPermissionArray(gate.profile, gate.action)]
  /\ UNCHANGED <<dbVars, sessionVars, listVars, scope, registryVars>>

SpecGate == InitGate /\ [][evaluateGate]_vars

\* ------------------------------------------------------------------------
\* The Scope Filter as a function of its inputs
\* ------------------------------------------------------------------------
\* the taxi documents addTaxi can store
TaxiDocs ==
  {NoTaxi} \cup
  {[exists |-> TRUE, assignedRank |-> k, totalLoads |-> 0,
    membershipPaidUntil |-> NoDate] :
     k \in RankNames \cup {NoRank}}

\* the approved profiles approveUser, editUser and handleChangeRole can store
ScopeProfiles ==
  {[exists |-> TRUE, uid |-> 2, role |-> r, rank |-> k,
    permissions |-> ApprovalPermissions(r), approved |-> TRUE,
    suspended |-> FALSE] :
     r \in Roles, k \in RankNames \cup {NoRank}}

InitScope ==
  /\ InitSystem
  /\ gate = NoGate
  /\ nearby = NoNearby
  /\ directory = NoDirectory
  /\ \E p \in ScopeProfiles, d \in [TaxiIds -> TaxiDocs] :
       scope = [NoScope EXCEPT !.profile = p, !.docs = d]

\* loadTaxis() of the dashboard bound to the profile of scope, run against
\* the collection of scope
evaluateScope ==
  /\ ~scope.evaluated
  /\ scope' = [scope EXCEPT !.evaluated = TRUE,
                            !.result = loadTaxis(scope.profile, scope.docs)]
  /\ UNCHANGED <<dbVars, sessionVars, listVars, gate, registryVars>>

SpecScope == InitScope /\ [][evaluateScope]_vars

\* ------------------------------------------------------------------------
\* The nearby filter of the public directory as a function of its inputs
\* ------------------------------------------------------------------------
\* coordinates are counted in hundredths of a degree, distances in metres
Coords == {0, 4, 8}

\* the length of one hundredth of a degree of a great circle of radius
\* 6371 km, in metres
MetresPerStep == 1112

\* the value calculateDistance returns for a missing coordinate
Infinity == 1000000000

NoLocation == [known |-> FALSE, lat |-> 0, lng |-> 0]

Locations ==
  {[known |-> TRUE, lat |-> a, lng |-> b] : a \in Coords, b \in Coords}

\* the places ranks are stored at, and a rank stored without location
RankLocations ==
  {NoLocation} \cup
  {l \in Locations : <<l.lat, l.lng>> \in {<<0, 4>>, <<4, 0>>, <<4, 4>>, <<4, 8>>, <<8, 8>>}}

\* the positions the geolocation API reports, and none
UserLocations ==
  {NoLocation} \cup
  {l \in Locations : <<l.lat, l.lng>> \in {<<4, 4>>, <<8, 4>>, <<0, 4>>}}

\* the ranks of the directory
DirectoryRanks ==
  {[name |-> n, location |-> l] : n \in RankNames, l \in RankLocations}

\* the values of the distance slider, in km
MaxDistances == {5, 10}

SortModes == {"distance", "name"}

\* the largest r in lo..hi with r * r <= n
RECURSIVE IsqrtIn(_, _, _)
IsqrtIn(n, lo, hi) ==
  IF lo = hi THEN lo
  ELSE LET mid == (lo + hi + 1) \div 2
       IN IF mid * mid <= n THEN IsqrtIn(n, mid, hi) ELSE IsqrtIn(n, lo, mid - 1)

\* the Haversine formula of calculateDistance, for points within a tenth of
\* a degree of latitude 0, where the cosine of the latitude is 1 to six
\* places and the arc equals its chord to the metre
Haversine(lat1, lon1, lat2, lon2) ==
  LET dLat == lat2 - lat1
      dLon == lon2 - lon1
  IN IsqrtIn((dLat * dLat + dLon * dLon) * MetresPerStep * MetresPerStep, 0, 40000)

\* calculateDistance(lat1, lon1, lat2, lon2): a coordinate that is 0 is
\* falsy
calculateDistance(lat1, lon1, lat2, lon2) ==
  IF lat1 = 0 \/ lon1 = 0 \/ lat2 = 0 \/ lon2 = 0
  THEN Infinity
  ELSE Haversine(lat1, lon1, lat2, lon2)

\* the place of a name in the order of localeCompare
NameOrder(name) ==
  IF name = "Bree Taxi Rank" THEN 0 ELSE 1

\* Array.prototype.sort with a comparator that subtracts keys, on pairs
\* <<key, element>>; the sort is stable: x goes after the pairs whose key
\* is not larger
RECURSIVE insertSorted(_, _)
insertSorted(q, x) ==
  IF q = <<>> THEN <<x>>
  ELSE IF Head(q)[1] > x[1] THEN <<x>> \o q
       ELSE <<Head(q)>> \o insertSorted(Tail(q), x)

RECURSIVE sortPairs(_)
sortPairs(q) ==
  IF q = <<>> THEN <<>>
  ELSE insertSorted(sortPairs(SubSeq(q, 1, Len(q) - 1)), q[Len(q)])

\* sortRanks(ranks) for the sort mode and the user location
sortRanks(ranks, sortBy, userLocation) ==
  LET dist(r) == calculateDistance(userLocation.lat, userLocation.lng,
                                   r.location.lat, r.location.lng)
      byDistance == sortPairs([i \in 1..Len(ranks) |-> <<dist(ranks[i]), ranks[i]>>])
      byName == sortPairs([i \in 1..Len(ranks) |->
                             <<NameOrder(ranks[i].name), ranks[i]>>])
  IN IF sortBy = "distance"
     THEN IF userLocation.known
          THEN [i \in 1..Len(ranks) |-> byDistance[i][2]]
          ELSE ranks
     ELSE IF sortBy = "name"
          THEN [i \in 1..Len(ranks) |-> byName[i][2]]
          ELSE ranks

\* the filter of showNearbyRanks
isNearby(rank, userLocation, maxDistance) ==
  IF ~rank.location.known \/ rank.location.lat = 0 \/ rank.location.lng = 0
  THEN FALSE
  ELSE calculateDistance(userLocation.lat, userLocation.lng,
                         rank.location.lat, rank.location.lng)
         <= maxDistance * 1000

InitNearby ==
  /\ InitSystem
  /\ gate = NoGate
  /\ scope = NoScope
  /\ \E u \in UserLocations, q \in SeqsUpTo(DirectoryRanks, MaxNearby),
        m \in MaxDistances, s \in SortModes :
       nearby = [NoNearby EXCEPT !.userLocation = u, !.taxiRanks = q,
                                 !.maxDistance = m, !.sortBy = s]
  /\ directory = NoDirectory

\* showNearbyRanks()
showNearbyRanks ==
  /\ ~nearby.evaluated
  /\ IF ~nearby.userLocation.known
     THEN nearby' = [nearby EXCEPT !.evaluated = TRUE, !.alerted = TRUE]
     ELSE nearby' = [nearby EXCEPT
            !.evaluated = TRUE,
            !.filteredRanks =
              LET Keep(rank) == isNearby(rank, nearby.userLocation,
                                         nearby.maxDistance)
              IN sortRanks(SelectSeq(nearby.taxiRanks, Keep), nearby.sortBy,
                           nearby.userLocation)]
  /\ UNCHANGED <<dbVars, sessionVars, listVars, gate, scope, rankDocs, loadDocs,
                 paymentDocs, meetingDocs, alert, directory>>

SpecNearby == InitNearby /\ [][showNearbyRanks]_vars

\* ------------------------------------------------------------------------
\* The offline cache of the public directory (services/storage.js)
\* ------------------------------------------------------------------------
\* the rank lists a query of taxiRanks returns or the cache holds
PublicRanks == {[name |-> n, location |-> l] : n \in RankNames,
                  l \in {x \in Locations : <<x.lat, x.lng>> \in {<<4, 4>>, <<8, 8>>}}}

PublicLists == SeqsUpTo(PublicRanks, MaxEntries)

\* localforage.getItem('taxi_ranks'): null when nothing was stored
getTaxiRanks == directory.cached

\* localforage.setItem('taxi_ranks', ranks)
saveTaxiRanks(ranks) == [stored |-> TRUE, ranks |-> ranks]

InitDirectory ==
  /\ InitSystem
  /\ gate = NoGate
  /\ scope = NoScope
  /\ nearby = NoNearby
  /\ \E cached \in {NoCache} \cup {saveTaxiRanks(q) : q \in PublicLists},
        fetchOk \in BOOLEAN, fetched \in PublicLists :
       /\ ~fetchOk => fetched = <<>>
       /\ directory = [NoDirectory EXCEPT !.cached = cached, !.fetchOk = fetchOk,
                                          !.fetched = fetched]

\* UserApp.loadTaxiRanks(): the cached list is shown first when it is not
\* empty; a fetch that returns at least one rank replaces the list and the
\* cache; a fetch that throws is logged
UserApp_loadTaxiRanks ==
  /\ ~directory.loaded
  /\ LET cached == getTaxiRanks
         shown == IF cached.stored /\ Len(cached.ranks) > 0
                  THEN cached.ranks ELSE directory.taxiRanks
         ranks == directory.fetched
     IN directory' =
          IF directory.fetchOk /\ Len(ranks) > 0
          THEN [directory EXCEPT !.loaded = TRUE, !.taxiRanks = ranks,
                                 !.cached = saveTaxiRanks(ranks), !.loading = FALSE]
          ELSE [directory EXCEPT !.loaded = TRUE, !.taxiRanks = shown,
                                 !.loading = FALSE]
  /\ UNCHANGED <<dbVars, sessionVars, listVars, gate, scope, rankDocs, loadDocs,
                 paymentDocs, meetingDocs, alert, nearby>>

SpecDirectory == InitDirectory /\ [][UserApp_loadTaxiRanks]_vars

\* ------------------------------------------------------------------------
\* Properties of the Action Gate
\* ------------------------------------------------------------------------
\* the role table as the specification states it
permissionsFor(r) ==
  CASE r = "Admin" -> {"view", "approve_users", "assign_roles", "manage_users",
                       "view_reports", "system_settings", "add_ranks"}
    [] r = "Supervisor" -> {"view", "view_reports"}
    [] r = "Marshal" -> {"view", "add_taxis", "record_loads", "record_payments",
                         "manage_meetings"}
    [] OTHER -> {}

C2_NullProfileOrRoleDenied ==
  (gate.evaluated /\ (~gate.profile.exists \/ gate.profile.role = NULL)) =>
    ~gate.result

C2_Witness ==
  /\ gate.evaluated
  /\ gate.profile.exists
  /\ gate.profile.role = NULL
  /\ gate.action \in gate.profile.permissions
  /\ ~gate.result

\* ------------------------------------------------------------------------
\* Properties of the Session Resolver
\* ------------------------------------------------------------------------
\* C3: in no reachable state is the bound profile of a dashboard (of
\* MarshalApp or of AdminApp) a record whose approved flag was false when the
\* auth-state handler read it.
C3_UnapprovedNeverBound ==
  \A c \in Clients :
    /\ marshalProfile[c].exists => marshalProfile[c].approved
    /\ adminProfile[c].exists => adminProfile[c].approved

C3_Witness ==
  \E c \in Clients :
    /\ user[c] \in Uids
    /\ inflight[c] = NoLookups
    /\ marshalls[user[c]].exists
    /\ ~marshalls[user[c]].approved
    /\ error[c] = "pending-approval"
    /\ ~marshalProfile[c].exists

\* C4: whenever an auth-state handler resolves a profile with suspended =
\* true, no profile is bound and the browser is signed out when the handler
\* ends.
C4_SuspendedInvalidated ==
  [][\A c \in Clients, u \in Uids :
       (onAuthStateChanged(c, u) /\ marshalls[u].exists /\ marshalls[u].suspended)
         => /\ ~marshalProfile'[c].exists
            /\ ~adminProfile'[c].exists
            /\ authUser'[c] = NoUser]_vars

\* C5: whenever the handler of MarshalApp resolves an existing profile with
\* approved = false (no registration being in progress), the outcome is the
\* pending-approval rejection and the browser is signed out when the handler
\* ends.
C5_PendingForcesSignOut ==
  [][\A c \in Clients, u \in Uids :
       (/\ app[c] = "MarshalApp"
        /\ \A d \in Clients : reg[d].step = "idle"
        /\ onAuthStateChanged(c, u)
        /\ marshalls[u].exists
        /\ ~marshalls[u].approved)
         => /\ error'[c] = "pending-approval"
            /\ authUser'[c] = NoUser]_vars

\* ------------------------------------------------------------------------
\* Properties of the Scope Filter
\* ------------------------------------------------------------------------
\* C6: for a profile with role Marshal or Supervisor and rank = null the
\* scoped taxi query returns zero documents.
C6_NullRankFailsClosed ==
  (/\ scope.evaluated
   /\ scope.profile.role \in {"Marshal", "Supervisor"}
   /\ scope.profile.rank = NoRank)
    => \A t \in TaxiIds : ~scope.result[t].exists

\* C7: for a Marshal or Supervisor profile with a non-null rank the loaded
\* taxi list holds exactly the stored taxis whose assignedRank equals the
\* rank of the profile, whatever taxis exist for other ranks; for an Admin
\* profile the list is the whole collection.
C7_ScopedByRank ==
  scope.evaluated =>
    /\ (scope.profile.role \in {"Marshal", "Supervisor"} /\ scope.profile.rank # NoRank)
         => \A t \in TaxiIds :
              /\ scope.result[t].exists <=>
                   (scope.docs[t].exists /\ scope.docs[t].assignedRank = scope.profile.rank)
              /\ scope.result[t].exists => scope.result[t] = scope.docs[t]
    /\ scope.profile.role = "Admin" => scope.result = scope.docs

C7_Witness ==
  /\ scope.evaluated
  /\ scope.profile.role = "Marshal"
  /\ scope.profile.rank = "Bree Taxi Rank"
  /\ \E t \in TaxiIds :
       /\ scope.docs[t].exists
       /\ scope.docs[t].assignedRank = "Park Station"
       /\ ~scope.result[t].exists
  /\ \E t \in TaxiIds :
       /\ scope.result[t].exists
       /\ scope.result[t].assignedRank = "Bree Taxi Rank"

\* ------------------------------------------------------------------------
\* Properties of the user administration
\* ------------------------------------------------------------------------
\* C8: a confirmed deleteUser whose target is the last Admin profile of the
\* database deletes nothing and writes nothing.
C8_LastAdminNotDeleted ==
  [][\A c \in Clients, u \in Uids :
       (deleteUser(c, u, TRUE) /\ Admins(marshalls) = {u})
         => UNCHANGED dbVars]_vars

\* C9: the database holds at least one Admin profile in every reachable
\* state.
C9_AdminExists ==
  Admins(marshalls) # {}

C11_ApprovalAssignsRole ==
  [][\A u \in Uids :
       (/\ marshalls[u].exists
        /\ ~marshalls[u].approved
        /\ marshalls'[u].exists
        /\ marshalls'[u].approved)
         => /\ marshalls'[u].role # NULL
            /\ marshalls'[u].role = "Marshal" => marshalls'[u].rank # NoRank]_vars

\* C12: an approveUser that assigns role Marshal and a rank to a stored
\* profile leaves it approved with that role and rank, and the handler of
\* MarshalApp resolving an approved profile that is not suspended binds the
\* profile it read (its role and rank included) and keeps the session.
C12_ApprovedMarshalBinds ==
  /\ [][\A c \in Clients, u \in Uids, k \in RankNames :
         (approveUser(c, u, "Marshal", k) /\ marshalls[u].exists)
           => /\ marshalls'[u].approved
              /\ marshalls'[u].role = "Marshal"
              /\ marshalls'[u].rank = k]_vars
  /\ [][\A c \in Clients, u \in Uids :
         (/\ app[c] = "MarshalApp"
          /\ onAuthStateChanged(c, u)
          /\ marshalls[u].exists
          /\ marshalls[u].approved
          /\ ~marshalls[u].suspended)
           => /\ marshalProfile'[c] = marshalls[u]
              /\ authUser'[c] = authUser[c]]_vars

C12_Witness ==
  \E c \in Clients :
    /\ DashboardShown(c)
    /\ user[c] = 2
    /\ inflight[c] = NoLookups
    /\ marshalProfile[c].uid = 2
    /\ marshalProfile[c].role = "Marshal"
    /\ marshalProfile[c].rank = "Bree Taxi Rank"
    /\ marshalProfile[c] = marshalls[2]

\* a principal the provider knows, without a profile record and without a
\* registration about to write one
ProfileRemoved(u) ==
  /\ u \in accounts
  /\ ~marshalls[u].exists
  /\ \A c \in Clients : ~(reg[c].step = "setDoc" /\ reg[c].uid = u)

\* C13: a rejection removes the profile record; when it removes a pending
\* profile no browser holds that principal bound; and once the record of a
\* principal is removed no step (login, registration with the same
\* credentials, an admin function working from a stale list) brings it back,
\* and every auth-state handler resolving that principal binds no profile.
C13_RejectionTerminal ==
  /\ [][\A c \in Clients, u \in Uids :
         (rejectUser(c, u) \/ handleRejectUser(c, u))
           => /\ ~marshalls'[u].exists
              /\ (marshalls[u].exists /\ ~marshalls[u].approved)
                   => \A d \in Clients :
                        /\ marshalProfile'[d].uid # u
                        /\ adminProfile'[d].uid # u]_vars
  /\ [][\A u \in Uids : ProfileRemoved(u) => ProfileRemoved(u)']_vars
  /\ [][\A c \in Clients, u \in Uids :
         (onAuthStateChanged(c, u) /\ ProfileRemoved(u))
           => /\ ~marshalProfile'[c].exists
              /\ ~adminProfile'[c].exists]_vars

\* the pending profile of principal 2 has been removed while another
\* dashboard still lists it, and a browser showing the login screen has had
\* a registration with known credentials refused
C13_Witness ==
  \E c, d \in Clients :
    /\ c # d
    /\ ProfileRemoved(2)
    /\ LoginShown(c)
    /\ error[c] = "email-already-in-use"
    /\ DashboardShown(d)
    /\ pendingUsers[d][2].exists

\* C14: a suspend/unsuspend step of either dashboard changes nothing in the
\* database but the suspended flag of its target (and the activity log), it
\* inverts the flag whenever the list it works from is current, so that a
\* suspension followed by its reversal gives the stored profile back; and
\* every auth-state handler resolving a suspended profile binds no profile.
C14_SuspensionOnlyTogglesFlag ==
  /\ [][\A c \in Clients, u \in Uids :
         (toggleUserSuspension(c, u) \/ handleSuspendUser(c, u))
           => /\ \A v \in Uids \ {u} : marshalls'[v] = marshalls[v]
              /\ marshalls'[u] =
                   [marshalls[u] EXCEPT !.suspended = marshalls'[u].suspended]
              /\ (/\ marshalls[u].exists
                  /\ approvedMarshals[c][u].suspended = marshalls[u].suspended)
                   => marshalls'[u].suspended = ~marshalls[u].suspended
              /\ UNCHANGED <<accounts, taxiDocs>>]_vars
  /\ [][\A c \in Clients, u \in Uids :
         (onAuthStateChanged(c, u) /\ marshalls[u].exists /\ marshalls[u].suspended)
           => /\ ~marshalProfile'[c].exists
              /\ ~adminProfile'[c].exists
              /\ error'[c] \in {"suspended", "access-denied"}]_vars

\* a principal was resolved as suspended in one browser, no stored profile
\* is suspended any more, and the profile of principal 2 is as it was
\* approved
C14_Witness ==
  \E c \in Clients :
    /\ error[c] = "suspended"
    /\ inflight[c] = NoLookups
    /\ \A u \in Uids : ~marshalls[u].suspended
    /\ marshalls[2] =
         [exists |-> TRUE, uid |-> 2, role |-> "Marshal", rank |-> "Park Station",
          permissions |-> ApprovalPermissions("Marshal"), approved |-> TRUE,
          suspended |-> FALSE]

\* C15: every payment recorded through the dashboard for a taxi, dated in
\* month m of year y, leaves the taxi's membershipPaidUntil at the first
\* day of month m of year y.
C15_PaymentSetsMembership ==
  [][\A c \in Clients, t \in TaxiIds, d \in PaymentDates :
       (recordPayment(c, t, d) /\ paymentDocs' # paymentDocs /\ taxiDocs[t].exists)
         => taxiDocs'[t].membershipPaidUntil =
              [year |-> d.year, month |-> d.month, day |-> 1]]_vars

\* every collection of the database
allDb == <<marshalls, accounts, taxiDocs, activityLogs, rankDocs, loadDocs,
           paymentDocs, meetingDocs>>

C17_RankRoundTrip ==
  /\ [][\A c \in Clients, r \in RankIds, n \in RankNames, q \in RouteForms :
          handleCreateRank(c, r, n, q)
            => /\ taxiRanks'[c][r].exists
               /\ taxiRanks'[c][r].routes = q]_vars
  /\ [][\A c \in Clients, f \in FareRows :
          (rankDocs' # rankDocs /\ handleAddFare(c, f))
            => taxiRanks'[c][selectedRank[c].id].fares =
                 Append(rankDocs[selectedRank[c].id].fares, f)]_vars

\* the number of places of a sequence that hold x
Count(q, x) == Cardinality({i \in 1..Len(q) : q[i] = x})

\* the great-circle distance between the user and a rank with a location
GreatCircle(userLocation, rank) ==
  Haversine(userLocation.lat, userLocation.lng,
            rank.location.lat, rank.location.lng)

\* C18: with a user location, the list showNearbyRanks produces holds
\* exactly the ranks of the directory whose great-circle distance from the
\* user is at most the threshold, and in sort mode distance it is in
\* ascending order of that distance.
C18_NearbyExact ==
  (nearby.evaluated /\ nearby.userLocation.known) =>
    /\ \A r \in DirectoryRanks :
         Count(nearby.filteredRanks, r) =
           IF /\ r.location.known
              /\ GreatCircle(nearby.userLocation, r) <= nearby.maxDistance * 1000
           THEN Count(nearby.taxiRanks, r)
           ELSE 0
    /\ nearby.sortBy = "distance" =>
         \A i, j \in 1..Len(nearby.filteredRanks) :
           i < j => GreatCircle(nearby.userLocation, nearby.filteredRanks[i])
                      <= GreatCircle(nearby.userLocation, nearby.filteredRanks[j])

\* b holds the elements of a, in order, before anything else
IsPrefix(a, b) ==
  /\ Len(a) <= Len(b)
  /\ SubSeq(b, 1, Len(a)) = a

\* C19: every step of the system leaves the Load records and the Payment
\* records recorded so far in place and unchanged; new records are added
\* after them.
C19_RecordsAppendOnly ==
  [][/\ IsPrefix(loadDocs, loadDocs')
     /\ IsPrefix(paymentDocs, paymentDocs')]_vars

\* two loads and two payments are on record, a taxi they refer to has had
\* its counter written since, and the marshal who recorded them has been
\* deleted
C19_Witness ==
  /\ Len(loadDocs) = 2
  /\ Len(paymentDocs) = 2
  /\ \E i \in 1..2 : /\ loadDocs[i].marshalId = 2
                     /\ paymentDocs[i].recordedBy = 2
                     /\ taxiDocs[loadDocs[i].taxiId].totalLoads > 0
  /\ ~marshalls[2].exists

\* C20: every step that changes a user profile or a taxi rank adds one
\* entry to the activity log in the same step, and no step removes or
\* rewrites an entry of the log.
C20_AdminMutationsLogged ==
  [][/\ (marshalls' # marshalls \/ rankDocs' # rankDocs)
          => activityLogs' = activityLogs + 1
     /\ activityLogs' >= activityLogs]_vars

\* C21: after loadTaxiRanks completes with a successful fetch, the cached
\* copy and the displayed list both equal the fetched list, the empty list
\* included; after a failed fetch the cached copy is what is displayed
C21_CacheMirrorsFetch ==
  directory.loaded =>
    IF directory.fetchOk
    THEN /\ directory.taxiRanks = directory.fetched
         /\ directory.cached.ranks = directory.fetched
    ELSE directory.taxiRanks = directory.cached.ranks

\* the stored profile of u becomes an Admin profile or an approved one
Elevated(u) ==
  \/ marshalls'[u].role = "Admin" /\ marshalls[u].role # "Admin"
  \/ marshalls'[u].approved /\ ~marshalls[u].approved

LoadsOf(t) == SelectSeq(loadDocs, LAMBDA l : l.taxiId = t)

\* C23: whatever the other browser has recorded since this browser loaded
\* its taxi list, recordLoad for a listed taxi goes through (neither browser
\* is refused or blocked by the other), its load record is appended behind
\* the others, and the counter it leaves is the counter this browser had
\* read plus one, not the stored counter plus one.
C23_LastWriterWins ==
  /\ [](\A c \in Clients, t \in TaxiIds :
         (/\ MarshalPanelsShown(c)
          /\ taxis[c][t].exists
          /\ Len(loadDocs) < MaxLoads)
           => ENABLED recordLoad(c, t, "written"))
  /\ [][\A c \in Clients, t \in TaxiIds :
         recordLoad(c, t, "written") =>
           /\ Len(loadDocs') = Len(loadDocs) + 1
           /\ IsPrefix(loadDocs, loadDocs')
           /\ loadDocs'[Len(loadDocs')].taxiId = t
           /\ loadDocs'[Len(loadDocs')].marshalId = user[c]
           /\ taxiDocs'[t].totalLoads = taxis[c][t].totalLoads + 1]_vars

\* two Marshals have each recorded a load for taxi 1, both lists show the
\* counter they wrote, and the stored counter is 1
C23_Witness ==
  /\ Len(LoadsOf(1)) = 2
  /\ loadDocs[1].marshalId # loadDocs[2].marshalId
  /\ taxiDocs[1].totalLoads = 1
  /\ \A c \in Clients : taxis[c][1].totalLoads = 1 /\ alert[c] = ""

C27_CounterAtMostLoads ==
  \A t \in TaxiIds : taxiDocs[t].totalLoads <= Len(LoadsOf(t))

\* taxi 1 has two load records, one of them from a recordLoad whose counter
\* write was rejected, and its counter is 1
C27_Witness ==
  \E c \in Clients :
    /\ alert[c] = FailureAlert
    /\ Len(LoadsOf(1)) = 2
    /\ taxiDocs[1].totalLoads = 1

\* C25: every stored profile whose role is Marshal names a rank, whatever
\* approvals, user edits, role changes, rank assignments, removals from a
\* rank and rank deletions have taken place.
C25_MarshalHasRank ==
  \A u \in Uids :
    (marshalls[u].exists /\ marshalls[u].role = "Marshal")
      => marshalls[u].rank # NoRank

\* C26: a step of the rank edit form that changes the name of a rank
\* leaves every profile whose rank field held the old name holding the new
\* name.
C26_RenameReachesProfiles ==
  [][rankDocs' # rankDocs =>
       \A c \in Clients, n \in RankNames :
         (handleEditRank(c, n) /\ rankDocs[selectedRank[c].id].name # n) =>
           \A u \in Uids :
             (/\ marshalls[u].exists
              /\ marshalls[u].rank = rankDocs[selectedRank[c].id].name)
               => marshalls'[u].rank = n]_vars

\* an id is in assignedMarshals of a rank exactly when that profile exists
\* and its rank field names the rank, and no id is in the lists of two ranks
AssignmentsAgree(ranks, col) ==
  /\ \A r \in RankIds, u \in Uids :
       ranks[r].exists =>
         (u \in ranks[r].assignedMarshals
            <=> (col[u].exists /\ col[u].rank = ranks[r].name))
  /\ \A r, q \in RankIds :
       (r # q /\ ranks[r].exists /\ ranks[q].exists)
         => ranks[r].assignedMarshals \cap ranks[q].assignedMarshals = {}

\* C30: a step of handleAssignMarshalsToRank, handleReassignUsers,
\* handleRemoveUserFromRank or deleteUser taken where the rank lists and the
\* profiles agree leaves them in agreement.
C30_AssignmentsStayConsistent ==
  [][(/\ marshalls' # marshalls \/ rankDocs' # rankDocs
      /\ AssignmentsAgree(rankDocs, marshalls)
      /\ ~AssignmentsAgree(rankDocs', marshalls'))
       => ~\E c \in Clients, u \in Uids :
             \/ deleteUser(c, u, TRUE)
             \/ \E r \in RankIds :
                  \/ handleAssignMarshalsToRank(c, r, u)
                  \/ handleRemoveUserFromRank(c, u, r)
                  \/ \E S \in SUBSET Uids : handleReassignUsers(c, r, S)]_vars

\* C28: the profile a dashboard is bound to changes only in a step of the
\* auth-state handler of that browser, a sign-out of that browser or a
\* reload of its page; no write to the collection of profiles, by any
\* browser, changes the bound profile of any dashboard, so every
\* hasPermission result of a bound session stays what it was.
C28_SnapshotUntilSignOut ==
  /\ [][marshalls' # marshalls =>
         /\ marshalProfile' = marshalProfile
         /\ adminProfile' = adminProfile]_vars
  /\ [][\A c \in Clients :
         (/\ CurrentProfile(c).exists
          /\ \/ marshalProfile'[c] # marshalProfile[c]
             \/ adminProfile'[c] # adminProfile[c])
           => \/ user'[c] = NoUser
              \/ \E u \in Uids : onAuthStateChanged(c, u)
              \/ \E a \in {"MarshalApp", "AdminApp"} : Mount(c, a)]_vars

\* a dashboard is shown for a bound Marshal whose stored profile has since
\* been suspended: the session still passes the permission check
C28_Witness ==
  \E c \in Clients :
    /\ DashboardShown(c)
    /\ inflight[c] = NoLookups
    /\ marshalls[user[c]].exists
    /\ marshalls[user[c]].suspended
    /\ ~marshalProfile[c].suspended
    /\ marshalProfile[c].uid = user[c]
    /\ hasPermission(marshalProfile[c], "record_loads")
    /\ ~hasPermission(marshalProfile[c], "approve_users")

====
